---- MODULE Spec2Model ----
(***************************************************************************)
(* Fleet management system: navigation graph (A* routes), robot state      *)
(* machine, traffic manager (occupancy, reservations, waiting) and fleet   *)
(* manager (spawn_robot, assign_task, update).                             *)
(*                                                                         *)
(* Units.  Time is counted in half seconds, progress in half lanes and     *)
(* battery in half percents, so that every quantity of the program is an   *)
(* integer: move_speed 1.0 lane/s is 1 half lane per half second, the      *)
(* drain rate 5.0 %/s is 5 half percents per half second and the charging  *)
(* rate 20.0 %/s is 20 half percents per half second.                      *)
(***************************************************************************)
EXTENDS Integers, Sequences, FiniteSets, TLC

\* ------------------------------------------------------------------------
\* Bounds of the model
\* ------------------------------------------------------------------------
MaxRobots == 2
MaxTicks == 3
MaxRouteLen == 3
MaxBlocked == 2
MaxShortTicks == 8

\* ------------------------------------------------------------------------
\* Python values
\* ------------------------------------------------------------------------
None == -1
EmptyDict == [k \in {} |-> 0]

DictPut(d, k, v) == [x \in (DOMAIN d) \cup {k} |-> IF x = k THEN v ELSE d[x]]
DictDel(d, ks) == [x \in (DOMAIN d) \ ks |-> d[x]]
DictGet(d, k, default) == IF k \in DOMAIN d THEN d[k] ELSE default

Min2(a, b) == IF a <= b THEN a ELSE b
Max2(a, b) == IF a >= b THEN a ELSE b

\* ------------------------------------------------------------------------
\* models/nav_graph.py
\* ------------------------------------------------------------------------
\* The graph document loaded at start-up: four sites on a 3 x 4 rectangle
\* (all pairwise distances are integers: 3, 4 and 5), joined in a ring, with
\* a charger at site 3.
Graph1 ==
    [ vertices    |-> {0, 1, 2, 3},
      coordinates |-> (0 :> <<0, 0>> @@ 1 :> <<3, 0>> @@ 2 :> <<3, 4>> @@ 3 :> <<0, 4>>),
      is_charger  |-> (0 :> FALSE @@ 1 :> FALSE @@ 2 :> FALSE @@ 3 :> TRUE),
      lanes       |-> {<<0, 1>>, <<1, 2>>, <<2, 3>>, <<3, 0>>} ]

\* A graph document with the sites of Graph1 whose charger, site 3, has no
\* lane: no route leads to it from the other sites.
GraphIsland ==
    [ vertices    |-> {0, 1, 2, 3},
      coordinates |-> (0 :> <<0, 0>> @@ 1 :> <<3, 0>> @@ 2 :> <<3, 4>> @@ 3 :> <<0, 4>>),
      is_charger  |-> (0 :> FALSE @@ 1 :> FALSE @@ 2 :> FALSE @@ 3 :> TRUE),
      lanes       |-> {<<0, 1>>, <<1, 2>>} ]

\* A graph document whose sites all lie on one line (every distance is an
\* integer): the direct way from site 0 to site 5 runs over five short lanes,
\* 0-1-2-3-4-5 of weight 5, and a second way over four longer lanes,
\* 0-6-7-8-5 of weight 11.  The charger is at site 5.
GraphDetour ==
    [ vertices    |-> 0..8,
      coordinates |-> [v \in 0..8 |-> <<v, 0>>],
      is_charger  |-> [v \in 0..8 |-> v = 5],
      lanes       |-> {<<0, 1>>, <<1, 2>>, <<2, 3>>, <<3, 4>>, <<4, 5>>,
                       <<0, 6>>, <<6, 7>>, <<7, 8>>, <<8, 5>>} ]

\* FleetManager.nav_graph: the graph built by NavGraph.from_json from the
\* document named at start-up; no operation changes it afterwards
VARIABLE nav_graph

\* a site id that is not in the graph
UnknownSite == 9

\* np.sqrt on the perfect squares the coordinates produce
Sqrt(n) == CHOOSE r \in 0..n : r * r <= n /\ n < (r + 1) * (r + 1)

euclidean_distance(G, u, v) ==
    LET pu == G.coordinates[u]
        pv == G.coordinates[v]
    IN  Sqrt((pu[1] - pv[1]) * (pu[1] - pv[1]) + (pu[2] - pv[2]) * (pu[2] - pv[2]))

get_edge_key(v1, v2) == <<Min2(v1, v2), Max2(v1, v2)>>

get_neighbors(G, v) ==
    {u \in G.vertices : <<v, u>> \in G.lanes \/ <<u, v>> \in G.lanes}

\* get_edge_weight giving every lane the weight 1
get_edge_weight_unit(G, v1, v2) == 1

get_edge_weight(G, v1, v2) == euclidean_distance(G, v1, v2)

\* path reconstruction of get_shortest_path: follow came_from back to start
RECURSIVE reconstruct_path(_, _)
reconstruct_path(came_from, current) ==
    IF current \in DOMAIN came_from
    THEN Append(reconstruct_path(came_from, came_from[current]), current)
    ELSE <<current>>

\* min(open_set, key=f_score): the lowest f_score; among equal scores the
\* first element met, which for a set of small integers is the smallest id
min_f_score(open_set, f_score) ==
    CHOOSE v \in open_set :
        \A u \in open_set :
            f_score[v] < f_score[u] \/ (f_score[v] = f_score[u] /\ v <= u)

\* the while loop of get_shortest_path; <<>> stands for the result None
RECURSIVE astar_loop(_, _, _, _)
astar_loop(G, end, blocked_edges, st) ==
    IF st.open_set = {} THEN <<>>
    ELSE
      LET current == min_f_score(st.open_set, st.f_score)
      IN
        IF current = end THEN reconstruct_path(st.came_from, current)
        ELSE
          LET closed_set == st.closed_set \cup {current}
              tentative(n) == st.g_score[current] + get_edge_weight(G, current, n)
              better == {n \in get_neighbors(G, current) \ closed_set :
                            /\ get_edge_key(current, n) \notin blocked_edges
                            /\ \/ n \notin st.open_set
                               \/ tentative(n) < st.g_score[n]}
              g_score == [n \in (DOMAIN st.g_score) \cup better |->
                            IF n \in better THEN tentative(n) ELSE st.g_score[n]]
          IN  astar_loop(G, end, blocked_edges,
                [ open_set   |-> (st.open_set \ {current}) \cup better,
                  closed_set |-> closed_set,
                  g_score    |-> g_score,
                  f_score    |-> [n \in DOMAIN g_score |->
                                    IF n \in better
                                    THEN g_score[n] + euclidean_distance(G, n, end)
                                    ELSE st.f_score[n]],
                  came_from  |-> [n \in (DOMAIN st.came_from) \cup better |->
                                    IF n \in better THEN current ELSE st.came_from[n]] ])

\* get_shortest_path searching as if no lane were blocked
get_shortest_path_ignores_blocked(G, start, end, blocked_edges) ==
    IF start = end THEN <<start>>
    ELSE astar_loop(G, end, {},
            [ open_set   |-> {start},
              closed_set |-> {},
              g_score    |-> (start :> 0),
              f_score    |-> (start :> euclidean_distance(G, start, end)),
              came_from  |-> EmptyDict ])

get_shortest_path(G, start, end, blocked_edges) ==
    IF start = end THEN <<start>>
    ELSE astar_loop(G, end, blocked_edges,
            [ open_set   |-> {start},
              closed_set |-> {},
              g_score    |-> (start :> 0),
              f_score    |-> (start :> euclidean_distance(G, start, end)),
              came_from  |-> EmptyDict ])

path_edges(path) ==
    {get_edge_key(path[i], path[i + 1]) : i \in 1..(Len(path) - 1)}

\* the while loop of get_alternative_paths blocking no lane of the paths found
RECURSIVE alternative_loop_blocks_nothing(_, _, _, _, _, _)
alternative_loop_blocks_nothing(G, start, end, max_paths, paths, blocked_edges) ==
    IF Len(paths) >= max_paths THEN paths
    ELSE
      LET new_path == get_shortest_path(G, start, end, blocked_edges)
      IN  IF new_path = <<>> THEN paths
          ELSE alternative_loop_blocks_nothing(G, start, end, max_paths,
                                               Append(paths, new_path), blocked_edges)

\* the while loop of get_alternative_paths
RECURSIVE alternative_loop(_, _, _, _, _, _)
alternative_loop(G, start, end, max_paths, paths, blocked_edges) ==
    IF Len(paths) >= max_paths THEN paths
    ELSE
      LET blocked  == blocked_edges \cup path_edges(paths[Len(paths)])
          new_path == get_shortest_path(G, start, end, blocked)
      IN  IF new_path = <<>> THEN paths
          ELSE alternative_loop(G, start, end, max_paths, Append(paths, new_path), blocked)

get_alternative_paths(G, start, end, max_paths) ==
    IF start = end THEN << <<start>> >>
    ELSE
      LET path == get_shortest_path(G, start, end, {})
      IN  IF path = <<>> THEN <<>>
          ELSE alternative_loop(G, start, end, max_paths, <<path>>, {})

\* get_shortest_path raises KeyError: self.vertices[u] in _euclidean_distance,
\* called for (start, end) once start == end has been dealt with
shortest_path_raises(G, start, end) ==
    start # end /\ (start \notin G.vertices \/ end \notin G.vertices)

\* get_alternative_paths raises what its first get_shortest_path raises
alternative_paths_raise(G, start, end) == shortest_path_raises(G, start, end)

\* get_neighbors raises NetworkXError: self.graph.neighbors of a node that is
\* not in the graph
neighbors_raises(G, vertex_id) == vertex_id \notin G.vertices

\* NavGraph.__init__ as from_json calls it: sites and lanes are added only
\* if the document has both
NavGraph(doc) ==
    IF doc.vertices # {} /\ doc.lanes # {} THEN doc
    ELSE [ vertices |-> {}, coordinates |-> EmptyDict,
           is_charger |-> EmptyDict, lanes |-> {} ]

\* ------------------------------------------------------------------------
\* models/robot.py
\* ------------------------------------------------------------------------
IDLE == "idle"
MOVING == "moving"
WAITING == "waiting"
CHARGING == "charging"
TASK_COMPLETE == "task_complete"
LOW_BATTERY == "low_battery"
BATTERY_DEAD == "battery_dead"

RobotStatus == {IDLE, MOVING, WAITING, CHARGING, TASK_COMPLETE, LOW_BATTERY, BATTERY_DEAD}

\* 100.0 percent, in half percents
FullBattery == 200
\* battery_drain_rate 5.0 %/s: half percents per half second
BatteryDrainRate == 5
\* charging_rate 20.0 %/s: half percents per half second
ChargingRate == 20
\* move_speed 1.0 lane/s: half lanes per half second
MoveSpeed == 1
\* progress 1.0, in half lanes
FullProgress == 2
\* needs_charging threshold 20.0 percent, in half percents
LowBatteryLevel == 40

\* Robot.__init__
Robot(id, start_vertex) ==
    [ id              |-> id,
      current_vertex  |-> start_vertex,
      next_vertex     |-> None,
      path            |-> <<>>,
      path_index      |-> 0,
      progress        |-> 0,
      status          |-> IDLE,
      battery_level   |-> FullBattery,
      is_battery_dead |-> FALSE ]

\* robot_advance keeping the progress beyond the site instead of resetting it
robot_advance_keeps_remainder(r, delta_time) ==
    LET progress == r.progress + MoveSpeed * delta_time
    IN  IF progress >= FullProgress
        THEN IF r.path_index + 1 >= Len(r.path) - 1
             THEN [r EXCEPT !.current_vertex = r.next_vertex,
                            !.progress = progress - FullProgress,
                            !.next_vertex = None,
                            !.status = TASK_COMPLETE,
                            !.path = <<>>,
                            !.path_index = 0]
             ELSE [r EXCEPT !.current_vertex = r.next_vertex,
                            !.progress = progress - FullProgress,
                            !.path_index = r.path_index + 1,
                            !.next_vertex = r.path[r.path_index + 3]]
        ELSE [r EXCEPT !.progress = progress]

\* robot_advance finishing the route one site early
robot_advance_stops_early(r, delta_time) ==
    LET progress == r.progress + MoveSpeed * delta_time
    IN  IF progress >= FullProgress
        THEN IF r.path_index + 1 >= Len(r.path) - 2
             THEN [r EXCEPT !.current_vertex = r.next_vertex,
                            !.progress = 0,
                            !.next_vertex = None,
                            !.status = TASK_COMPLETE,
                            !.path = <<>>,
                            !.path_index = 0]
             ELSE [r EXCEPT !.current_vertex = r.next_vertex,
                            !.progress = 0,
                            !.path_index = r.path_index + 1,
                            !.next_vertex = r.path[r.path_index + 3]]
        ELSE [r EXCEPT !.progress = progress]

\* robot_advance leaving the next site as it was on arrival at a site that
\* is not the last one
robot_advance_keeps_next(r, delta_time) ==
    LET progress == r.progress + MoveSpeed * delta_time
    IN  IF progress >= FullProgress
        THEN IF r.path_index + 1 >= Len(r.path) - 1
             THEN [r EXCEPT !.current_vertex = r.next_vertex,
                            !.progress = 0,
                            !.next_vertex = None,
                            !.status = TASK_COMPLETE,
                            !.path = <<>>,
                            !.path_index = 0]
             ELSE [r EXCEPT !.current_vertex = r.next_vertex,
                            !.progress = 0,
                            !.path_index = r.path_index + 1]
        ELSE [r EXCEPT !.progress = progress]

\* the MOVING branch of Robot.update up to the battery: progress and arrival
robot_advance(r, delta_time) ==
    LET progress == r.progress + MoveSpeed * delta_time
    IN  IF progress >= FullProgress
        THEN IF r.path_index + 1 >= Len(r.path) - 1
             THEN [r EXCEPT !.current_vertex = r.next_vertex,
                            !.progress = 0,
                            !.next_vertex = None,
                            !.status = TASK_COMPLETE,
                            !.path = <<>>,
                            !.path_index = 0]
             ELSE [r EXCEPT !.current_vertex = r.next_vertex,
                            !.progress = 0,
                            !.path_index = r.path_index + 1,
                            !.next_vertex = r.path[r.path_index + 3]]
        ELSE [r EXCEPT !.progress = progress]

\* robot_drain clamping the battery at 0 without declaring it dead
robot_drain_not_dead(r, delta_time) ==
    [ robot |-> [r EXCEPT !.battery_level =
                              Max2(0, r.battery_level - BatteryDrainRate * delta_time)],
      ret |-> TRUE ]

\* robot_drain leaving the route and the next site of a dead robot in place
robot_drain_keeps_route(r, delta_time) ==
    LET level == Max2(0, r.battery_level - BatteryDrainRate * delta_time)
    IN  IF level <= 0
        THEN [ robot |-> [r EXCEPT !.battery_level = level,
                                   !.is_battery_dead = TRUE,
                                   !.status = BATTERY_DEAD],
               ret |-> FALSE ]
        ELSE [ robot |-> [r EXCEPT !.battery_level = level], ret |-> TRUE ]

\* robot_drain leaving the battery as it is
robot_drain_nothing(r, delta_time) == [robot |-> r, ret |-> TRUE]

\* the battery drain of the MOVING branch of Robot.update
robot_drain(r, delta_time) ==
    LET level == Max2(0, r.battery_level - BatteryDrainRate * delta_time)
    IN  IF level <= 0
        THEN [ robot |-> [r EXCEPT !.battery_level = level,
                                   !.is_battery_dead = TRUE,
                                   !.status = BATTERY_DEAD,
                                   !.next_vertex = None,
                                   !.path = <<>>,
                                   !.path_index = 0],
               ret |-> FALSE ]
        ELSE [ robot |-> [r EXCEPT !.battery_level = level], ret |-> TRUE ]

\* robot_charge filling the battery without ending the charge
robot_charge_never_ends(r, delta_time) ==
    [r EXCEPT !.battery_level = Min2(FullBattery, r.battery_level + ChargingRate * delta_time)]

\* the CHARGING branch of Robot.update
robot_charge(r, delta_time) ==
    LET level == Min2(FullBattery, r.battery_level + ChargingRate * delta_time)
    IN  IF level >= FullBattery
        THEN [r EXCEPT !.battery_level = level,
                       !.status = TASK_COMPLETE,
                       !.is_battery_dead = FALSE]
        ELSE [r EXCEPT !.battery_level = level]

\* Robot.update taking a waiting robot along its lane as if it were moving
robot_update_moves_waiting(r, delta_time) ==
    IF r.status \in {MOVING, WAITING} THEN robot_drain(robot_advance(r, delta_time), delta_time)
    ELSE IF r.status = CHARGING THEN [robot |-> robot_charge(r, delta_time), ret |-> TRUE]
    ELSE [robot |-> r, ret |-> TRUE]

\* Robot.update: the robot after the update and the value returned
robot_update(r, delta_time) ==
    IF r.status = MOVING THEN robot_drain(robot_advance(r, delta_time), delta_time)
    ELSE IF r.status = CHARGING THEN [robot |-> robot_charge(r, delta_time), ret |-> TRUE]
    ELSE [robot |-> r, ret |-> TRUE]

\* Robot.assign_task without the check of the status
robot_assign_task_any_status(r, path) ==
    IF Len(path) < 2 THEN [robot |-> r, ret |-> FALSE]
    ELSE IF r.is_battery_dead THEN [robot |-> r, ret |-> FALSE]
    ELSE [ robot |-> [r EXCEPT !.path = path,
                               !.path_index = 0,
                               !.next_vertex = path[2],
                               !.progress = 0,
                               !.status = MOVING],
           ret |-> TRUE ]

\* Robot.assign_task: the robot after the call and the value returned
robot_assign_task(r, path) ==
    IF Len(path) < 2 THEN [robot |-> r, ret |-> FALSE]
    ELSE IF r.status \notin {IDLE, TASK_COMPLETE} THEN [robot |-> r, ret |-> FALSE]
    ELSE IF r.is_battery_dead THEN [robot |-> r, ret |-> FALSE]
    ELSE [ robot |-> [r EXCEPT !.path = path,
                               !.path_index = 0,
                               !.next_vertex = path[2],
                               !.progress = 0,
                               !.status = MOVING],
           ret |-> TRUE ]

\* Robot.wait without the check of the status
robot_wait_any_status(r) == [r EXCEPT !.status = WAITING]

\* Robot.wait
robot_wait(r) == IF r.status = MOVING THEN [r EXCEPT !.status = WAITING] ELSE r

\* Robot.resume
robot_resume(r) == IF r.status = WAITING THEN [r EXCEPT !.status = MOVING] ELSE r

\* needs_charging with a strict comparison
needs_charging_below(r) == r.battery_level < LowBatteryLevel

needs_charging(r) == r.battery_level <= LowBatteryLevel

is_charging(r) == r.status = CHARGING

start_charging(r) == [r EXCEPT !.status = CHARGING]

\* ------------------------------------------------------------------------
\* controllers/traffic_manager.py
\* A traffic manager is the record tm of its four fields.
\* ------------------------------------------------------------------------
\* TrafficManager.__init__
TrafficManager ==
    [ edge_occupancy   |-> EmptyDict,
      vertex_occupancy |-> EmptyDict,
      reserved_paths   |-> EmptyDict,
      waiting_robots   |-> {} ]

is_edge_occupied(tm, v1, v2, ignore_robot_id) ==
    LET edge == get_edge_key(v1, v2)
    IN  IF edge \notin DOMAIN tm.edge_occupancy THEN FALSE
        ELSE IF ignore_robot_id # None /\ tm.edge_occupancy[edge] = ignore_robot_id THEN FALSE
        ELSE TRUE

is_vertex_occupied(tm, vertex, ignore_robot_id) ==
    IF vertex \notin DOMAIN tm.vertex_occupancy THEN FALSE
    ELSE IF ignore_robot_id # None /\ tm.vertex_occupancy[vertex] = ignore_robot_id THEN FALSE
    ELSE TRUE

\* head_on_reserved testing the same direction instead of the opposite one
head_on_reserved_same_direction(tm, robot_id, current_vertex, next_vertex) ==
    \E other_id \in DOMAIN tm.reserved_paths :
        LET other_path == tm.reserved_paths[other_id]
        IN  /\ other_id # robot_id
            /\ Len(other_path) > 1
            /\ other_path[1] = current_vertex
            /\ other_path[2] = next_vertex

\* the loop of is_path_available over the other robots' reserved paths
head_on_reserved(tm, robot_id, current_vertex, next_vertex) ==
    \E other_id \in DOMAIN tm.reserved_paths :
        LET other_path == tm.reserved_paths[other_id]
        IN  /\ other_id # robot_id
            /\ Len(other_path) > 1
            /\ get_edge_key(current_vertex, next_vertex)
                  = get_edge_key(other_path[1], other_path[2])
            /\ other_path[1] = next_vertex
            /\ other_path[2] = current_vertex

\* is_path_available without the check of the lane's occupancy
is_path_available_no_edge(tm, robot_id, path) ==
    IF path = <<>> THEN FALSE
    ELSE IF Len(path) <= 1 THEN TRUE
    ELSE IF is_vertex_occupied(tm, path[2], robot_id) THEN FALSE
    ELSE IF head_on_reserved(tm, robot_id, path[1], path[2]) THEN FALSE
    ELSE TRUE

is_path_available(tm, robot_id, path) ==
    IF path = <<>> THEN FALSE
    ELSE IF Len(path) <= 1 THEN TRUE
    ELSE IF is_vertex_occupied(tm, path[2], robot_id) THEN FALSE
    ELSE IF is_edge_occupied(tm, path[1], path[2], robot_id) THEN FALSE
    ELSE IF head_on_reserved(tm, robot_id, path[1], path[2]) THEN FALSE
    ELSE TRUE

clear_reservations(tm, robot_id) ==
    [ vertex_occupancy |->
          DictDel(tm.vertex_occupancy,
                  {v \in DOMAIN tm.vertex_occupancy : tm.vertex_occupancy[v] = robot_id}),
      edge_occupancy |->
          DictDel(tm.edge_occupancy,
                  {e \in DOMAIN tm.edge_occupancy : tm.edge_occupancy[e] = robot_id}),
      reserved_paths |-> DictDel(tm.reserved_paths, {robot_id}),
      waiting_robots |-> tm.waiting_robots \ {robot_id} ]

\* reserve_path that clears the robot's reservations before it checks the path
reserve_path_clear_first(tm, robot_id, path) ==
    IF ~is_path_available(tm, robot_id, path)
    THEN [tm |-> clear_reservations(tm, robot_id), ret |-> FALSE]
    ELSE [ tm  |-> [clear_reservations(tm, robot_id) EXCEPT
                       !.reserved_paths = DictPut(@, robot_id, path)],
           ret |-> TRUE ]

\* TrafficManager.reserve_path: the manager after the call and the value returned
reserve_path(tm, robot_id, path) ==
    IF ~is_path_available(tm, robot_id, path) THEN [tm |-> tm, ret |-> FALSE]
    ELSE [ tm  |-> [clear_reservations(tm, robot_id) EXCEPT
                       !.reserved_paths = DictPut(@, robot_id, path)],
           ret |-> TRUE ]

\* the first pass of TrafficManager.update recording the lane of every robot
\* that has a next site, whatever its status
RECURSIVE occupancy_pass_any_status(_, _, _)
occupancy_pass_any_status(tm, robots, order) ==
    IF order = <<>> THEN tm
    ELSE
      LET robot == robots[Head(order)]
          tm1 == [tm EXCEPT !.vertex_occupancy =
                                DictPut(@, robot.current_vertex, robot.id)]
          tm2 == IF robot.next_vertex # None
                 THEN [tm1 EXCEPT !.edge_occupancy =
                          DictPut(@, get_edge_key(robot.current_vertex, robot.next_vertex),
                                  robot.id)]
                 ELSE tm1
      IN  occupancy_pass_any_status(tm2, robots, Tail(order))

\* First pass of TrafficManager.update over the robots in list order: a later
\* robot overwrites the entry an earlier one wrote for the same key.
RECURSIVE occupancy_pass(_, _, _)
occupancy_pass(tm, robots, order) ==
    IF order = <<>> THEN tm
    ELSE
      LET robot == robots[Head(order)]
          tm1 == [tm EXCEPT !.vertex_occupancy =
                                DictPut(@, robot.current_vertex, robot.id)]
          tm2 == IF robot.status = MOVING /\ robot.next_vertex # None
                 THEN [tm1 EXCEPT !.edge_occupancy =
                          DictPut(@, get_edge_key(robot.current_vertex, robot.next_vertex),
                                  robot.id)]
                 ELSE tm1
      IN  occupancy_pass(tm2, robots, Tail(order))

\* the inner loop of the second pass: does some other robot block the step
\* current -> next_vertex of robot
conflict_with_other(robots, robot, current, next_vertex) ==
    \E oid \in DOMAIN robots :
        LET other_robot == robots[oid]
        IN  /\ other_robot.id # robot.id
            /\ IF other_robot.current_vertex = next_vertex
               THEN IF other_robot.status \in {MOVING, WAITING}
                    THEN other_robot.next_vertex = current /\ robot.id > other_robot.id
                    ELSE TRUE
               ELSE /\ other_robot.status = MOVING
                    /\ other_robot.next_vertex = next_vertex
                    /\ robot.id > other_robot.id

\* is_blocked of the second pass finding no step blocked
step_never_blocked(tm, robots, robot, current, next_vertex) == FALSE

\* is_blocked of the second pass for a robot with the step current -> next_vertex
step_is_blocked(tm, robots, robot, current, next_vertex) ==
    \/ is_vertex_occupied(tm, next_vertex, robot.id)
    \/ is_edge_occupied(tm, current, next_vertex, robot.id)
    \/ conflict_with_other(robots, robot, current, next_vertex)

\* Second pass of TrafficManager.update over the robots in list order; st is
\* [tm, robots], and each robot sees the statuses the earlier ones were given.
RECURSIVE conflict_pass(_, _)
conflict_pass(st, order) ==
    IF order = <<>> THEN st
    ELSE
      LET robot == st.robots[Head(order)]
          path  == DictGet(st.tm.reserved_paths, robot.id, <<>>)
          next_st ==
            IF /\ robot.status \in {MOVING, WAITING}
               /\ path # <<>>
               /\ robot.path_index < Len(path) - 1
            THEN
              IF step_is_blocked(st.tm, st.robots, robot,
                                 path[robot.path_index + 1], path[robot.path_index + 2])
              THEN IF robot.id \notin st.tm.waiting_robots
                   THEN [ tm |-> [st.tm EXCEPT !.waiting_robots = @ \cup {robot.id}],
                          robots |-> [st.robots EXCEPT ![robot.id] = robot_wait(robot)] ]
                   ELSE st
              ELSE IF robot.id \in st.tm.waiting_robots
                   THEN [ tm |-> [st.tm EXCEPT !.waiting_robots = @ \ {robot.id}],
                          robots |-> [st.robots EXCEPT ![robot.id] = robot_resume(robot)] ]
                   ELSE st
            ELSE st
      IN  conflict_pass(next_st, Tail(order))

\* TrafficManager.update(robots), the robots taken in the given order
traffic_update(tm, robots, order) ==
    conflict_pass(
        [ tm |-> occupancy_pass([tm EXCEPT !.edge_occupancy = EmptyDict,
                                           !.vertex_occupancy = EmptyDict],
                                robots, order),
          robots |-> robots ],
        order)

get_blocked_robots(tm) == tm.waiting_robots

\* ------------------------------------------------------------------------
\* controllers/fleet_manager.py
\* ------------------------------------------------------------------------
\* max_paths default of get_alternative_paths, used by assign_task
MaxPaths == 3
BlockedVertexPenalty == 100
BlockedEdgePenalty == 50
CollisionPenalty == 75
LongPathPenalty == 150

\* self.robots.values(): the robots in insertion order, which is id order
RECURSIVE id_order(_)
id_order(n) == IF n = 0 THEN <<>> ELSE Append(id_order(n - 1), n - 1)

robot_order(robots) == id_order(Cardinality(DOMAIN robots))

\* the graphs a fleet is run on
FleetGraphs == {Graph1, GraphIsland, GraphDetour}

\* get_alternative_paths is a function of the immutable graph: its table,
\* for each graph a fleet is run on
alternative_paths_table ==
    [G \in FleetGraphs |->
        [start \in G.vertices, end \in G.vertices |->
            get_alternative_paths(G, start, end, MaxPaths)]]

alternative_paths_of == alternative_paths_table[nav_graph]

\* blocked_edges of assign_task: lanes of the other robots that are moving
blocked_edges_for(robots, robot_id) ==
    {get_edge_key(robots[o].current_vertex, robots[o].next_vertex) :
        o \in {x \in DOMAIN robots :
                  /\ x # robot_id
                  /\ robots[x].status = MOVING
                  /\ robots[x].next_vertex # None}}

\* blocked_vertices of assign_task: sites of the other robots that are
\* neither moving nor waiting
blocked_vertices_for(robots, robot_id) ==
    {robots[o].current_vertex :
        o \in {x \in DOMAIN robots :
                  /\ x # robot_id
                  /\ ~(robots[x].status = MOVING /\ robots[x].next_vertex # None)
                  /\ robots[x].status \notin {MOVING, WAITING}}}

\* moving_robots of assign_task: other moving robot -> its reserved path
moving_robots_for(robots, tm, robot_id) ==
    [o \in {x \in DOMAIN robots :
               /\ x # robot_id
               /\ robots[x].status = MOVING
               /\ robots[x].next_vertex # None} |->
        DictGet(tm.reserved_paths, o, <<>>)]

\* the pairs (segment, moving robot) that the collision check of assign_task
\* counts for a path: the other robot's reserved path has, at the segment's
\* index, the site the segment leads to
collision_hits(path, moving_robots) ==
    {<<i, o>> \in (1..(Len(path) - 1)) \X (DOMAIN moving_robots) :
        Len(moving_robots[o]) > i - 1 /\ moving_robots[o][i] = path[i + 1]}

path_is_blocked(path, blocked_vertices, blocked_edges) ==
    \E i \in 1..(Len(path) - 1) :
        \/ path[i + 1] \in blocked_vertices
        \/ get_edge_key(path[i], path[i + 1]) \in blocked_edges

\* path_score of assign_task
path_score(path, shortest_length, blocked_vertices, blocked_edges, moving_robots) ==
    Len(path)
    + BlockedVertexPenalty
        * Cardinality({i \in 1..(Len(path) - 1) : path[i + 1] \in blocked_vertices})
    + BlockedEdgePenalty
        * Cardinality({i \in 1..(Len(path) - 1) :
                          get_edge_key(path[i], path[i + 1]) \in blocked_edges})
    + CollisionPenalty * Cardinality(collision_hits(path, moving_robots))
    + (IF 2 * Len(path) > 3 * shortest_length THEN LongPathPenalty ELSE 0)

\* min(alternative_paths, key=len): the first of the shortest ones
shortest_of(paths) ==
    paths[CHOOSE i \in 1..Len(paths) :
            /\ \A j \in 1..Len(paths) : Len(paths[i]) <= Len(paths[j])
            /\ \A j \in 1..(i - 1) : Len(paths[j]) > Len(paths[i])]

\* The scoring loop of assign_task from the k-th candidate on.  st holds
\* best_path (<<>> for None, best_score then being infinite), best_score, the
\* traffic manager and the loop variable path; ctx holds shortest_length,
\* blocked_vertices, blocked_edges and moving_robots.
RECURSIVE scoring_loop(_, _, _, _, _)
scoring_loop(st, k, paths, robot_id, ctx) ==
    IF k > Len(paths) THEN st
    ELSE
      LET path == paths[k]
          score == path_score(path, ctx.shortest_length, ctx.blocked_vertices,
                              ctx.blocked_edges, ctx.moving_robots)
          has_collision == collision_hits(path, ctx.moving_robots) # {}
          is_blocked == path_is_blocked(path, ctx.blocked_vertices, ctx.blocked_edges)
          res == reserve_path(st.tm, robot_id, path)
      IN
        IF Len(path) < 2
        THEN scoring_loop([st EXCEPT !.path = path], k + 1, paths, robot_id, ctx)
        ELSE IF (st.best_path = <<>> \/ score < st.best_score) /\ ~has_collision /\ res.ret
        THEN
          LET st1 == [ best_path |-> path, best_score |-> score,
                       tm |-> res.tm, path |-> path ]
          IN  IF ~is_blocked /\ 5 * Len(path) <= 6 * ctx.shortest_length
              THEN st1
              ELSE scoring_loop(st1, k + 1, paths, robot_id, ctx)
        ELSE scoring_loop([st EXCEPT !.path = path], k + 1, paths, robot_id, ctx)

\* the any(...) of the fallback of assign_task: the sites come from
\* shortest_path, the lanes from the loop variable path
fallback_must_wait(shortest_path, path, blocked_vertices, blocked_edges) ==
    \E i \in 1..(Len(shortest_path) - 1) :
        \/ shortest_path[i] \in blocked_vertices
        \/ get_edge_key(path[i], path[i + 1]) \in blocked_edges

\* assign_fallback giving the robot the shortest path before reserving it
assign_fallback_assigns_first(robots, tm, robot_id, shortest_path, path, ctx) ==
    LET res == reserve_path(tm, robot_id, shortest_path)
        assigned == robot_assign_task(robots[robot_id], shortest_path).robot
    IN  [ ret    |-> res.ret,
          tm     |-> res.tm,
          robots |-> [robots EXCEPT ![robot_id] =
                        IF fallback_must_wait(shortest_path, path,
                                              ctx.blocked_vertices, ctx.blocked_edges)
                        THEN robot_wait(assigned)
                        ELSE assigned] ]

\* the fallback of assign_task: reserve the shortest path whatever its score
assign_fallback(robots, tm, robot_id, shortest_path, path, ctx) ==
    LET res == reserve_path(tm, robot_id, shortest_path)
        assigned == robot_assign_task(robots[robot_id], shortest_path).robot
    IN  IF res.ret
        THEN [ ret    |-> TRUE,
               tm     |-> res.tm,
               robots |-> [robots EXCEPT ![robot_id] =
                             IF fallback_must_wait(shortest_path, path,
                                                   ctx.blocked_vertices, ctx.blocked_edges)
                             THEN robot_wait(assigned)
                             ELSE assigned] ]
        ELSE [ret |-> FALSE, tm |-> tm, robots |-> robots]

\* assign_scored giving the robot the best path while dropping the robot's
\* reservation
assign_scored_unreserved(robots, robot_id, shortest_path, ctx, st) ==
    LET best == robot_assign_task(robots[robot_id], st.best_path)
    IN  IF st.best_path # <<>> /\ best.ret
        THEN [ ret |-> TRUE, tm |-> clear_reservations(st.tm, robot_id),
               robots |-> [robots EXCEPT ![robot_id] = best.robot] ]
        ELSE assign_fallback(robots, st.tm, robot_id, shortest_path, st.path, ctx)

\* assign_task after its scoring loop, which left st: use the best path if
\* there is one and the robot takes it, else fall back to the shortest path
assign_scored(robots, robot_id, shortest_path, ctx, st) ==
    LET best == robot_assign_task(robots[robot_id], st.best_path)
    IN  IF st.best_path # <<>> /\ best.ret
        THEN [ ret |-> TRUE, tm |-> st.tm,
               robots |-> [robots EXCEPT ![robot_id] = best.robot] ]
        ELSE assign_fallback(robots, st.tm, robot_id, shortest_path, st.path, ctx)

\* FleetManager.assign_task without the checks of the status and the battery
assign_task_any_status(robots, tm, robot_id, destination) ==
    LET failed == [ret |-> FALSE, tm |-> tm, robots |-> robots]
    IN
    IF robot_id \notin DOMAIN robots THEN failed
    ELSE IF destination \notin nav_graph.vertices THEN failed
    ELSE
      LET robot == robots[robot_id]
          alternative_paths == alternative_paths_of[robot.current_vertex, destination]
      IN
      IF alternative_paths = <<>> THEN failed
      ELSE
        LET shortest_path == shortest_of(alternative_paths)
            ctx == [ shortest_length  |-> Len(shortest_path),
                     blocked_vertices |-> blocked_vertices_for(robots, robot_id),
                     blocked_edges    |-> blocked_edges_for(robots, robot_id),
                     moving_robots    |-> moving_robots_for(robots, tm, robot_id) ]
        IN  assign_scored(robots, robot_id, shortest_path, ctx,
                          scoring_loop([ best_path |-> <<>>, best_score |-> 0,
                                         tm |-> tm, path |-> <<>> ],
                                       1, alternative_paths, robot_id, ctx))

\* FleetManager.assign_task: the value returned, the robots and the traffic
\* manager after the call
assign_task(robots, tm, robot_id, destination) ==
    LET failed == [ret |-> FALSE, tm |-> tm, robots |-> robots]
    IN
    IF robot_id \notin DOMAIN robots THEN failed
    ELSE IF destination \notin nav_graph.vertices THEN failed
    ELSE IF robots[robot_id].status \notin {IDLE, TASK_COMPLETE} THEN failed
    ELSE IF robots[robot_id].is_battery_dead THEN failed
    ELSE
      LET robot == robots[robot_id]
          alternative_paths == alternative_paths_of[robot.current_vertex, destination]
      IN
      IF alternative_paths = <<>> THEN failed
      ELSE
        LET shortest_path == shortest_of(alternative_paths)
            ctx == [ shortest_length  |-> Len(shortest_path),
                     blocked_vertices |-> blocked_vertices_for(robots, robot_id),
                     blocked_edges    |-> blocked_edges_for(robots, robot_id),
                     moving_robots    |-> moving_robots_for(robots, tm, robot_id) ]
        IN  assign_scored(robots, robot_id, shortest_path, ctx,
                          scoring_loop([ best_path |-> <<>>, best_score |-> 0,
                                         tm |-> tm, path |-> <<>> ],
                                       1, alternative_paths, robot_id, ctx))

is_charger(vertex) == nav_graph.is_charger[vertex]

\* advance_robot starting the charge of every robot that is not moving at a
\* charger, a battery-dead one included
advance_robot_charges_dead(r, delta_time) ==
    robot_update(
        IF is_charger(r.current_vertex) /\ r.status \in {TASK_COMPLETE, BATTERY_DEAD}
        THEN start_charging(r) ELSE r,
        delta_time).robot

\* the first loop of FleetManager.update, for one robot: start charging when
\* task-complete at a charger, then Robot.update
advance_robot(r, delta_time) ==
    robot_update(
        IF is_charger(r.current_vertex) /\ r.status = TASK_COMPLETE
        THEN start_charging(r) ELSE r,
        delta_time).robot

charging_stations == {v \in nav_graph.vertices : is_charger(v)}

\* get_shortest_path(start, v) without blocked edges is a function of the
\* immutable graph: its table, for each graph a fleet is run on
shortest_path_table ==
    [G \in FleetGraphs |->
        [start \in G.vertices, end \in G.vertices |->
            get_shortest_path(G, start, end, {})]]

shortest_path_of == shortest_path_table[nav_graph]

\* min(charging_stations, key=len(shortest path)): the first nearest one
nearest_station(vertex) ==
    CHOOSE v \in charging_stations :
        \A u \in charging_stations :
            LET lv == Len(shortest_path_of[vertex, v])
                lu == Len(shortest_path_of[vertex, u])
            IN  lv < lu \/ (lv = lu /\ v <= u)

\* len(None) in the key of min raises TypeError
nearest_raises(vertex) ==
    \E v \in charging_stations : shortest_path_of[vertex, v] = <<>>

\* the state of the last loop of FleetManager.update after its call of
\* assign_task, whose result (res) it only reports
sent_to_charger(res) == [robots |-> res.robots, tm |-> res.tm, raised |-> FALSE]

\* The last loop of FleetManager.update (robots that need charging), over the
\* robots in list order; st is [robots, tm, raised].
RECURSIVE charging_pass(_, _)
charging_pass(st, order) ==
    IF order = <<>> \/ st.raised THEN st
    ELSE
      LET robot == st.robots[Head(order)]
          next_st ==
            IF needs_charging(robot) /\ ~is_charging(robot) /\ ~robot.is_battery_dead
            THEN IF is_charger(robot.current_vertex)
                 THEN [st EXCEPT !.robots[robot.id] = start_charging(robot)]
                 ELSE IF charging_stations = {} THEN st
                 ELSE IF nearest_raises(robot.current_vertex)
                 THEN [st EXCEPT !.raised = TRUE]
                 ELSE sent_to_charger(assign_task(st.robots, st.tm, robot.id,
                                                  nearest_station(robot.current_vertex)))
            ELSE st
      IN  charging_pass(next_st, Tail(order))

\* FleetManager.update running the traffic manager on the robots as they
\* were before this call advanced them
fleet_update_traffic_first(robots, tm, delta_time) ==
    charging_pass(
        [ tm     |-> traffic_update(tm, robots, robot_order(robots)).tm,
          robots |-> [id \in DOMAIN robots |->
                        advance_robot(traffic_update(tm, robots, robot_order(robots)).robots[id],
                                      delta_time)],
          raised |-> FALSE ],
        robot_order(robots))

\* FleetManager.update: the robots and the traffic manager after the call,
\* and whether the call raised
fleet_update(robots, tm, delta_time) ==
    charging_pass(
        traffic_update(tm,
                       [id \in DOMAIN robots |-> advance_robot(robots[id], delta_time)],
                       robot_order(robots))
          @@ [raised |-> FALSE],
        robot_order(robots))

\* the check of spawn_robot counting the moving robots too
spawn_vertex_occupied_any_status(robots, vertex_id) ==
    \E id \in DOMAIN robots : robots[id].current_vertex = vertex_id

\* the check of spawn_robot: some robot that is not moving stands on the site
spawn_vertex_occupied(robots, vertex_id) ==
    \E id \in DOMAIN robots :
        robots[id].current_vertex = vertex_id /\ robots[id].status # MOVING

\* FleetManager.spawn_robot: the value returned (<<>> for None, <<robot>> for
\* the new robot), the robots and next_robot_id after the call
spawn_robot(robots, next_robot_id, vertex_id) ==
    IF vertex_id \notin nav_graph.vertices \/ spawn_vertex_occupied(robots, vertex_id)
    THEN [ret |-> <<>>, robots |-> robots, next_robot_id |-> next_robot_id]
    ELSE [ ret           |-> <<Robot(next_robot_id, vertex_id)>>,
           robots        |-> DictPut(robots, next_robot_id, Robot(next_robot_id, vertex_id)),
           next_robot_id |-> next_robot_id + 1 ]

\* ------------------------------------------------------------------------
\* The system: a fleet manager driven by spawn, assign and update requests
\* ------------------------------------------------------------------------
VARIABLES
    robots,           \* FleetManager.robots: id -> robot
    next_robot_id,    \* FleetManager.next_robot_id
    traffic_manager,  \* FleetManager.traffic_manager
    ticks,            \* number of update calls made
    crashed,          \* an exception left FleetManager.update
    query             \* the call of the graph a caller is in, and its outcome

vars == <<nav_graph, robots, next_robot_id, traffic_manager, ticks, crashed, query>>

\* no call of the graph is under way
NoQuery ==
    [ op |-> "none", start |-> None, end |-> None, blocked_edges |-> {},
      max_paths |-> 0, ret |-> <<>>, raised |-> FALSE ]

\* Elapsed times of an update, in half seconds: 0.5 s (half a lane, 2.5 % of
\* battery) and 16 s (a whole lane, 80 % of battery: one such update takes a
\* moving robot to the low-battery threshold, a second one empties it).
DeltaTimes == {1, 32}

\* sites and robot ids the requests may name
SiteInputs == nav_graph.vertices \cup {UnknownSite}
RobotInputs == 0..(MaxRobots - 1)

Init ==
    /\ nav_graph = Graph1
    /\ robots = EmptyDict
    /\ next_robot_id = 0
    /\ traffic_manager = TrafficManager
    /\ ticks = 0
    /\ crashed = FALSE
    /\ query = NoQuery

\* FleetManager.spawn_robot(vertex_id)
SpawnRobot(vertex_id) ==
    /\ ~crashed
    /\ next_robot_id < MaxRobots
    /\ \E res \in {spawn_robot(robots, next_robot_id, vertex_id)} :
           /\ robots' = res.robots
           /\ next_robot_id' = res.next_robot_id
    /\ UNCHANGED <<nav_graph, traffic_manager, ticks, crashed, query>>

\* FleetManager.assign_task(robot_id, destination)
AssignTask(robot_id, destination) ==
    /\ ~crashed
    /\ \E res \in {assign_task(robots, traffic_manager, robot_id, destination)} :
           /\ robots' = res.robots
           /\ traffic_manager' = res.tm
    /\ UNCHANGED <<nav_graph, next_robot_id, ticks, crashed, query>>

\* FleetManager.update(delta_time), one pass of the main loop
Update(delta_time) ==
    /\ ~crashed
    /\ ticks < MaxTicks
    /\ \E res \in {fleet_update(robots, traffic_manager, delta_time)} :
           /\ robots' = res.robots
           /\ traffic_manager' = res.tm
           /\ crashed' = res.raised
    /\ ticks' = ticks + 1
    /\ UNCHANGED <<nav_graph, next_robot_id, query>>

Next ==
    \/ \E v \in SiteInputs : SpawnRobot(v)
    \/ \E id \in RobotInputs, v \in SiteInputs : AssignTask(id, v)
    \/ \E dt \in DeltaTimes : Update(dt)

Spec == Init /\ [][Next]_vars

\* FleetManager.update(delta_time) in a run of the main loop of any length:
\* the calls are not counted.  The three stages of fleet_update, each result
\* taken as a value.
UpdateForever(delta_time) ==
    /\ ~crashed
    /\ \E advanced \in {[id \in DOMAIN robots |-> advance_robot(robots[id], delta_time)]} :
       \E traffic \in {traffic_update(traffic_manager, advanced, robot_order(robots))} :
       \E res \in {charging_pass(traffic @@ [raised |-> FALSE], robot_order(robots))} :
           /\ robots' = res.robots
           /\ traffic_manager' = res.tm
           /\ crashed' = res.raised
    /\ UNCHANGED <<nav_graph, next_robot_id, ticks, query>>

\* FleetManager.spawn_robot(vertex_id) for the first robot of the fleet
SpawnFirst(vertex_id) == next_robot_id = 0 /\ SpawnRobot(vertex_id)

\* A fleet of one robot under a main loop that never stops calling update.
NextOneRobot ==
    \/ \E v \in SiteInputs : SpawnFirst(v)
    \/ \E id \in RobotInputs, v \in SiteInputs : AssignTask(id, v)
    \/ \E dt \in DeltaTimes : UpdateForever(dt)

OneRobotSpec ==
    /\ Init
    /\ [][NextOneRobot]_vars
    /\ WF_vars(\E dt \in DeltaTimes : UpdateForever(dt))

\* The fleet on the graph whose charger cannot be reached
InitIsland ==
    /\ nav_graph = GraphIsland
    /\ robots = EmptyDict
    /\ next_robot_id = 0
    /\ traffic_manager = TrafficManager
    /\ ticks = 0
    /\ crashed = FALSE
    /\ query = NoQuery

IslandSpec == InitIsland /\ [][Next]_vars

\* The fleet of one robot on the graph with the detour
InitDetour ==
    /\ nav_graph = GraphDetour
    /\ robots = EmptyDict
    /\ next_robot_id = 0
    /\ traffic_manager = TrafficManager
    /\ ticks = 0
    /\ crashed = FALSE
    /\ query = NoQuery

DetourSpec == InitDetour /\ [][NextOneRobot]_vars

\* ------------------------------------------------------------------------
\* The fleet under a careful driver: every robot is spawned before the first
\* update, no task is assigned before it, and every update lasts less than
\* the time a robot takes over a lane
\* ------------------------------------------------------------------------
\* the elapsed times that advance a robot by less than one lane
ShortDeltaTimes == {dt \in DeltaTimes : MoveSpeed * dt < FullProgress}

\* FleetManager.spawn_robot(vertex_id) before the first update
SpawnBeforeUpdates(vertex_id) == ticks = 0 /\ SpawnRobot(vertex_id)

\* FleetManager.assign_task(robot_id, destination) after the first update
AssignAfterUpdate(robot_id, destination) == ticks >= 1 /\ AssignTask(robot_id, destination)

\* FleetManager.update(delta_time) with a short elapsed time
ShortUpdate(delta_time) ==
    /\ ~crashed
    /\ ticks < MaxShortTicks
    /\ \E res \in {fleet_update(robots, traffic_manager, delta_time)} :
           /\ robots' = res.robots
           /\ traffic_manager' = res.tm
           /\ crashed' = res.raised
    /\ ticks' = ticks + 1
    /\ UNCHANGED <<nav_graph, next_robot_id, query>>

NextCareful ==
    \/ \E v \in SiteInputs : SpawnBeforeUpdates(v)
    \/ \E id \in RobotInputs, v \in SiteInputs : AssignAfterUpdate(id, v)
    \/ \E dt \in ShortDeltaTimes : ShortUpdate(dt)

CarefulSpec == Init /\ [][NextCareful]_vars

\* ------------------------------------------------------------------------
\* The whole fleet under a main loop that never stops calling update, each
\* update lasting at least the time a robot takes over a lane
\* ------------------------------------------------------------------------
LongDeltaTimes == DeltaTimes \ ShortDeltaTimes

NextFleetForever ==
    \/ \E v \in SiteInputs : SpawnRobot(v)
    \/ \E id \in RobotInputs, v \in SiteInputs : AssignTask(id, v)
    \/ \E dt \in LongDeltaTimes : UpdateForever(dt)

\* no robot of the fleet is moving
NoneMoving == \A id \in DOMAIN robots : robots[id].status # MOVING

\* The main loop keeps calling update, and an update changes every moving
\* robot (its progress or its site, and its battery), so a step of update is
\* possible whenever some robot is moving: weak fairness of the update then
\* gives that either no robot is moving again and again, or a step of update
\* is taken again and again.  The fairness is stated in that form.
FleetForeverSpec ==
    /\ Init
    /\ [][NextFleetForever]_vars
    /\ \/ []<>NoneMoving
       \/ []<><<\E dt \in LongDeltaTimes : UpdateForever(dt)>>_vars

\* ------------------------------------------------------------------------
\* The graph on its own: a caller that loads a graph document and then calls
\* get_shortest_path, get_alternative_paths and get_neighbors, one call at a
\* time
\* ------------------------------------------------------------------------
\* The graph documents: four sites, at the corners of the 3 x 4 rectangle or
\* on a line at unit distances (every distance is an integer), with any set
\* of lanes between them
DocumentSites == 0..3

AllLanes == {e \in DocumentSites \X DocumentSites : e[1] < e[2]}

GraphDocuments ==
    [ vertices    : {DocumentSites},
      coordinates : {Graph1.coordinates, [v \in DocumentSites |-> <<v, 0>>]},
      is_charger  : {Graph1.is_charger},
      lanes       : SUBSET AllLanes ]

\* the blocked_edges arguments: None (the empty set stands for it, both being
\* falsy) and the sets of up to MaxBlocked lane keys
BlockedInputs == {B \in SUBSET AllLanes : Cardinality(B) <= MaxBlocked}

\* the max_paths arguments
MaxPathsInputs == 1..MaxPaths

InitNavGraph ==
    /\ nav_graph \in {NavGraph(doc) : doc \in GraphDocuments}
    /\ robots = EmptyDict
    /\ next_robot_id = 0
    /\ traffic_manager = TrafficManager
    /\ ticks = 0
    /\ crashed = FALSE
    /\ query = NoQuery

\* NavGraph.get_shortest_path(start, end, blocked_edges)
GetShortestPath(start, end, blocked_edges) ==
    /\ query = NoQuery
    /\ query' = [ op |-> "get_shortest_path", start |-> start, end |-> end,
                  blocked_edges |-> blocked_edges, max_paths |-> 0,
                  raised |-> shortest_path_raises(nav_graph, start, end),
                  ret |-> IF shortest_path_raises(nav_graph, start, end) THEN <<>>
                          ELSE get_shortest_path(nav_graph, start, end, blocked_edges) ]
    /\ UNCHANGED <<nav_graph, robots, next_robot_id, traffic_manager, ticks, crashed>>

\* NavGraph.get_alternative_paths(start, end, max_paths)
GetAlternativePaths(start, end, max_paths) ==
    /\ query = NoQuery
    /\ query' = [ op |-> "get_alternative_paths", start |-> start, end |-> end,
                  blocked_edges |-> {}, max_paths |-> max_paths,
                  raised |-> alternative_paths_raise(nav_graph, start, end),
                  ret |-> IF alternative_paths_raise(nav_graph, start, end) THEN <<>>
                          ELSE get_alternative_paths(nav_graph, start, end, max_paths) ]
    /\ UNCHANGED <<nav_graph, robots, next_robot_id, traffic_manager, ticks, crashed>>

\* NavGraph.get_neighbors(vertex_id); the list returned is taken as a set
GetNeighbors(vertex_id) ==
    /\ query = NoQuery
    /\ query' = [ op |-> "get_neighbors", start |-> vertex_id, end |-> None,
                  blocked_edges |-> {}, max_paths |-> 0,
                  raised |-> neighbors_raises(nav_graph, vertex_id),
                  ret |-> IF neighbors_raises(nav_graph, vertex_id) THEN {}
                          ELSE get_neighbors(nav_graph, vertex_id) ]
    /\ UNCHANGED <<nav_graph, robots, next_robot_id, traffic_manager, ticks, crashed>>

\* the call returns (or its exception reaches the caller)
Return ==
    /\ query # NoQuery
    /\ query' = NoQuery
    /\ UNCHANGED <<nav_graph, robots, next_robot_id, traffic_manager, ticks, crashed>>

NextNavGraph ==
    \/ \E start, end \in SiteInputs, blocked_edges \in BlockedInputs :
          GetShortestPath(start, end, blocked_edges)
    \/ \E start, end \in SiteInputs, max_paths \in MaxPathsInputs :
          GetAlternativePaths(start, end, max_paths)
    \/ \E vertex_id \in SiteInputs : GetNeighbors(vertex_id)
    \/ Return

NavGraphSpec == InitNavGraph /\ [][NextNavGraph]_vars

\* ------------------------------------------------------------------------
\* Inputs of the coordinator and robot operations that the properties range
\* over: the routes of the graph up to MaxRouteLen sites, the empty route and
\* the one-site routes
\* ------------------------------------------------------------------------
Routes ==
    {p \in UNION {[1..n -> nav_graph.vertices] : n \in 2..MaxRouteLen} :
        \A i \in 1..(Len(p) - 1) : p[i + 1] \in get_neighbors(nav_graph, p[i])}

RouteInputs == Routes \cup {<<>>} \cup {<<v>> : v \in nav_graph.vertices}

\* the robots as the coordinator sees them in Update(delta_time): advanced
AdvancedRobots(delta_time) ==
    [id \in DOMAIN robots |-> advance_robot(robots[id], delta_time)]

\* the result of the coordinator tick of Update(delta_time)
CoordinatorTick(delta_time) ==
    traffic_update(traffic_manager, AdvancedRobots(delta_time),
                   robot_order(robots))

OnLane(r) == r.status = MOVING /\ r.next_vertex # None

\* ------------------------------------------------------------------------
\* Properties
\* ------------------------------------------------------------------------
DistinctSites(rs) ==
    \A a, b \in DOMAIN rs : a # b => rs[a].current_vertex # rs[b].current_vertex

\* C1: after every update (tick), whatever spawn, assign and update calls came
\* before, no two distinct robots have the same current site.
C1_DistinctSitesAfterTick ==
    [][ticks' = ticks + 1 => DistinctSites(robots')]_vars

\* C2: in every reachable state no lane is being traversed by two moving
\* robots at once, in the same or in opposing directions.
C2_LaneExclusive ==
    \A a, b \in DOMAIN robots :
        (a # b /\ OnLane(robots[a]) /\ OnLane(robots[b]))
        => get_edge_key(robots[a].current_vertex, robots[a].next_vertex)
             # get_edge_key(robots[b].current_vertex, robots[b].next_vertex)

\* the coordinator's occupancy snapshot and reservations, read directly
VertexHeldByOther(robot_id, v) ==
    /\ v \in DOMAIN traffic_manager.vertex_occupancy
    /\ traffic_manager.vertex_occupancy[v] # robot_id

LaneHeldByOther(robot_id, a, b) ==
    \E e \in DOMAIN traffic_manager.edge_occupancy :
        /\ e \in {<<a, b>>, <<b, a>>}
        /\ traffic_manager.edge_occupancy[e] # robot_id

\* some other robot holds a reservation whose immediate step is b -> a
OppositeReserved(robot_id, a, b) ==
    \E o \in (DOMAIN traffic_manager.reserved_paths) \ {robot_id} :
        LET p == traffic_manager.reserved_paths[o]
        IN  Len(p) >= 2 /\ p[1] = b /\ p[2] = a

\* route q takes, somewhere, a lane that route p takes in the other direction
TakesLaneOpposite(p, q) ==
    \E i \in 1..(Len(p) - 1), j \in 1..(Len(q) - 1) :
        q[j] = p[i + 1] /\ q[j + 1] = p[i]

\* C3 as stated: while robot X holds a reservation for a route, reserve_path
\* fails for every other robot Y and every route that takes a lane of X's
\* route in the opposite direction, wherever the lane lies in the two routes.
C3_OppositeLaneAnywhereFails ==
    \A x \in DOMAIN traffic_manager.reserved_paths :
        \A y \in RobotInputs \ {x}, q \in Routes :
            TakesLaneOpposite(traffic_manager.reserved_paths[x], q)
            => ~reserve_path(traffic_manager, y, q).ret

\* C3 amended: while robot X holds a reservation whose first lane is a -> b,
\* reserve_path fails for every other robot Y and every route whose first
\* lane is b -> a.
C3_OppositeFirstLaneFails ==
    \A x \in DOMAIN traffic_manager.reserved_paths :
        \A y \in RobotInputs \ {x}, q \in Routes :
            LET p == traffic_manager.reserved_paths[x]
            IN  (Len(p) >= 2 /\ q[1] = p[2] /\ q[2] = p[1])
                => ~reserve_path(traffic_manager, y, q).ret

\* C3 witness: X holds a reservation, another robot Y stands at the far end of
\* its first lane, and nothing but the opposite reservation stops Y's route
C3_Witness ==
    \E x \in DOMAIN traffic_manager.reserved_paths, y \in DOMAIN robots :
        LET p == traffic_manager.reserved_paths[x]
        IN  /\ y # x
            /\ Len(p) >= 2
            /\ robots[y].current_vertex = p[2]
            /\ ~VertexHeldByOther(y, p[1])
            /\ ~LaneHeldByOther(y, p[2], p[1])
            /\ ~reserve_path(traffic_manager, y, <<p[2], p[1]>>).ret

\* C4: reserve_path for a route of two or more sites succeeds exactly when
\* the site route[2] is not held by another robot in the occupancy snapshot,
\* the lane route[1]-route[2] is not held by another robot, and no other robot
\* holds a reservation for that lane in the opposite direction (a reservation
\* being a claim on its route's immediate step); the three conditions read
\* only the first step of the route, so no later site or lane has a say.
C4_ReserveChecksFirstStep ==
    \A id \in RobotInputs, q \in Routes :
        reserve_path(traffic_manager, id, q).ret
          <=> /\ ~VertexHeldByOther(id, q[2])
              /\ ~LaneHeldByOther(id, q[1], q[2])
              /\ ~OppositeReserved(id, q[1], q[2])

\* C4 witness: a route is reserved although a site beyond its first step is
\* held by another robot, and a route is refused because its first lane is held
C4_Witness ==
    /\ \E id \in DOMAIN robots, q \in Routes :
          /\ Len(q) >= 3
          /\ q[1] = robots[id].current_vertex
          /\ VertexHeldByOther(id, q[3])
          /\ reserve_path(traffic_manager, id, q).ret
    /\ \E id \in DOMAIN robots, q \in Routes :
          /\ LaneHeldByOther(id, q[1], q[2])
          /\ ~VertexHeldByOther(id, q[2])
          /\ ~reserve_path(traffic_manager, id, q).ret

\* C5: a reserve_path call that fails leaves the traffic manager as it was
\* (lane occupancy, site occupancy, reserved paths, waiting set); a call that
\* succeeds records the new route as the robot's reservation in place of the
\* previous one and leaves every other robot's reservation as it was.
C5_ReserveFrame ==
    \A id \in RobotInputs, q \in RouteInputs :
        LET res == reserve_path(traffic_manager, id, q)
        IN  IF res.ret
            THEN /\ id \in DOMAIN res.tm.reserved_paths
                 /\ res.tm.reserved_paths[id] = q
                 /\ (DOMAIN res.tm.reserved_paths) \ {id}
                      = (DOMAIN traffic_manager.reserved_paths) \ {id}
                 /\ \A o \in (DOMAIN traffic_manager.reserved_paths) \ {id} :
                      res.tm.reserved_paths[o] = traffic_manager.reserved_paths[o]
            ELSE res.tm = traffic_manager

\* C5 witness: a robot that holds a reservation and an occupancy entry has a
\* route that is refused and one that is granted, with another robot's
\* reservation on record
C5_Witness ==
    \E id \in DOMAIN traffic_manager.reserved_paths :
        /\ \E v \in DOMAIN traffic_manager.vertex_occupancy :
              traffic_manager.vertex_occupancy[v] = id
        /\ (DOMAIN traffic_manager.reserved_paths) \ {id} # {}
        /\ \E q \in Routes : ~reserve_path(traffic_manager, id, q).ret
        /\ \E q \in Routes :
              /\ reserve_path(traffic_manager, id, q).ret
              /\ q # traffic_manager.reserved_paths[id]

\* the coordinator's view at the start of the second pass of its tick in
\* Update(delta_time): the rebuilt occupancy snapshot and the advanced robots
SecondPassStart(delta_time) ==
    [ tm |-> occupancy_pass([traffic_manager EXCEPT !.edge_occupancy = EmptyDict,
                                                    !.vertex_occupancy = EmptyDict],
                            AdvancedRobots(delta_time), robot_order(robots)),
      robots |-> AdvancedRobots(delta_time) ]

\* robot id has a reserved route with a step left, as the second pass sees it
HasNextStep(tm, r) ==
    /\ r.id \in DOMAIN tm.reserved_paths
    /\ tm.reserved_paths[r.id] # <<>>
    /\ r.path_index < Len(tm.reserved_paths[r.id]) - 1

HeadOn(rs, a, b) ==
    /\ rs[a].next_vertex = rs[b].current_vertex
    /\ rs[b].next_vertex = rs[a].current_vertex

Converging(rs, a, b) ==
    /\ rs[a].next_vertex # None
    /\ rs[a].next_vertex = rs[b].next_vertex

\* no third robot stands on, or heads for, the next site of robot a
NoThirdRobot(rs, a, b) ==
    \A c \in (DOMAIN rs) \ {a, b} :
        /\ rs[c].current_vertex # rs[a].next_vertex
        /\ rs[c].next_vertex # rs[a].next_vertex

\* C6: in a coordinator tick, when two moving robots on different sites are in
\* a head-on conflict (each one's next site is the other's current site) or
\* converge on the same next site, the one with the higher id is made to wait
\* and the one with the lower id is not: it is still moving after the tick.
C6_LowerIdProceeds ==
    (ticks < MaxTicks /\ ~crashed) =>
        \A dt \in DeltaTimes :
            LET rs  == AdvancedRobots(dt)
                out == CoordinatorTick(dt)
            IN  \A a, b \in DOMAIN rs :
                    ( /\ a < b
                      /\ rs[a].status = MOVING /\ rs[b].status = MOVING
                      /\ HasNextStep(traffic_manager, rs[a])
                      /\ HasNextStep(traffic_manager, rs[b])
                      /\ rs[a].current_vertex # rs[b].current_vertex
                      /\ (HeadOn(rs, a, b) \/ Converging(rs, a, b))
                      /\ NoThirdRobot(rs, a, b) )
                    => /\ out.robots[b].status = WAITING
                       /\ out.robots[a].status = MOVING

\* C7: a waiting robot with a reserved route not yet finished, for whose next
\* step a coordinator tick finds no blocking condition, is moving after that
\* tick.
C7_UnblockedWaitingResumes ==
    (ticks < MaxTicks /\ ~crashed) =>
        \A dt \in DeltaTimes :
            LET start == SecondPassStart(dt)
                out   == CoordinatorTick(dt)
            IN  \A id \in DOMAIN robots :
                    LET st   == conflict_pass(start, id_order(id))
                        r    == st.robots[id]
                        path == st.tm.reserved_paths[id]
                    IN  ( /\ r.status = WAITING
                          /\ HasNextStep(st.tm, r)
                          /\ ~step_is_blocked(st.tm, st.robots, r,
                                              path[r.path_index + 1],
                                              path[r.path_index + 2]) )
                        => out.robots[id].status = MOVING

\* C8: after every update (tick) the coordinator's waiting set is exactly the
\* set of the robots whose status is waiting.
C8_WaitingSetMatchesStatus ==
    [][ticks' = ticks + 1 =>
         get_blocked_robots(traffic_manager')
           = {id \in DOMAIN robots' : robots'[id].status = WAITING}]_vars

\* C9: once a robot has finished its route (task complete, route cleared) the
\* coordinator holds no reserved route for it.
C9_NoReservationAfterFinish ==
    \A id \in DOMAIN robots :
        (robots[id].status = TASK_COMPLETE /\ robots[id].path = <<>>)
        => id \notin DOMAIN traffic_manager.reserved_paths

\* C10: Robot.assign_task(route) returns true exactly when the route has two
\* or more sites, the status is idle or task-complete and the battery is not
\* dead, and then the robot is moving with index 0, progress 0 and next site
\* route[2]; in every other case it returns false and the robot is unchanged.
C10_AssignRoute ==
    \A id \in DOMAIN robots, q \in RouteInputs :
        LET r   == robots[id]
            res == robot_assign_task(r, q)
            ok  == /\ Len(q) >= 2
                   /\ r.status \in {IDLE, TASK_COMPLETE}
                   /\ ~r.is_battery_dead
        IN  /\ res.ret <=> ok
            /\ ok => /\ res.robot.status = MOVING
                     /\ res.robot.path = q
                     /\ res.robot.path_index = 0
                     /\ res.robot.progress = 0
                     /\ res.robot.next_vertex = q[2]
                     /\ res.robot.current_vertex = r.current_vertex
                     /\ res.robot.battery_level = r.battery_level
                     /\ res.robot.is_battery_dead = r.is_battery_dead
                     /\ res.robot.id = r.id
            /\ ~ok => res.robot = r

\* C10 witness: one robot is task-complete and takes a route, another is
\* waiting half-way along a lane and another has an empty battery
C10_Witness ==
    /\ \E id \in DOMAIN robots, q \in Routes :
          /\ robots[id].status = TASK_COMPLETE
          /\ robot_assign_task(robots[id], q).ret
    /\ \E id \in DOMAIN robots, q \in Routes :
          /\ robots[id].status \in {WAITING, BATTERY_DEAD, CHARGING}
          /\ ~robot_assign_task(robots[id], q).ret

\* C11: a robot whose battery level is 0 is refused by Robot.assign_task
\* whatever the route: the call returns false and leaves the robot, which is
\* not moving, as it was, so that repeating the call is refused again.
C11_EmptyBatteryNeverAssigned ==
    \A id \in DOMAIN robots, q \in RouteInputs :
        robots[id].battery_level = 0 =>
            LET res == robot_assign_task(robots[id], q)
            IN  /\ ~res.ret
                /\ res.robot = robots[id]
                /\ res.robot.status # MOVING
                /\ ~robot_assign_task(res.robot, q).ret

\* C11 witness: a robot has emptied its battery
C11_Witness ==
    \E id \in DOMAIN robots :
        /\ robots[id].battery_level = 0
        /\ \E q \in Routes : q[1] = robots[id].current_vertex

\* C12: Robot.update returns false exactly when the robot is moving and the
\* update takes its battery to 0; the robot then has status battery-dead, no
\* route and no next site, and Robot.assign_task refuses it every route; and
\* every robot whose battery is dead is refused every route.
C12_DepletionFailsUpdate ==
    \A id \in DOMAIN robots :
        /\ \A delta_time \in DeltaTimes :
              LET r   == robots[id]
                  res == robot_update(r, delta_time)
                  depleted == r.status = MOVING /\ res.robot.battery_level = 0
              IN  /\ res.ret <=> ~depleted
                  /\ depleted =>
                        /\ res.robot.status = BATTERY_DEAD
                        /\ res.robot.is_battery_dead
                        /\ res.robot.path = <<>>
                        /\ res.robot.next_vertex = None
                        /\ \A q \in RouteInputs : ~robot_assign_task(res.robot, q).ret
        /\ robots[id].is_battery_dead =>
              \A q \in RouteInputs : ~robot_assign_task(robots[id], q).ret

\* C12 witness: a moving robot is emptied by one update and not by another
C12_Witness ==
    \E id \in DOMAIN robots :
        /\ robots[id].status = MOVING
        /\ \E delta_time \in DeltaTimes : ~robot_update(robots[id], delta_time).ret
        /\ \E delta_time \in DeltaTimes : robot_update(robots[id], delta_time).ret

\* the robot arrives at its next site in an update of delta_time
Arrives(r, delta_time) ==
    r.status = MOVING /\ r.progress + MoveSpeed * delta_time >= FullProgress

\* what an update does to the position of a moving robot r, the result being
\* u: the progress grows by speed times elapsed time; on arrival the robot
\* takes its next site with progress 0 and is task-complete without route
\* and next site after the last lane, else moving with the index advanced
\* and the following site as next site
MovesAlong(r, u, delta_time) ==
    IF Arrives(r, delta_time)
    THEN /\ u.current_vertex = r.next_vertex
         /\ u.progress = 0
         /\ IF r.path_index + 1 = Len(r.path) - 1
            THEN /\ u.status = TASK_COMPLETE
                 /\ u.path = <<>>
                 /\ u.next_vertex = None
            ELSE /\ u.status = MOVING
                 /\ u.path = r.path
                 /\ u.path_index = r.path_index + 1
                 /\ u.next_vertex = r.path[r.path_index + 3]
    ELSE /\ u.progress = r.progress + MoveSpeed * delta_time
         /\ u.current_vertex = r.current_vertex
         /\ u.next_vertex = r.next_vertex
         /\ u.status = MOVING
         /\ u.path = r.path
         /\ u.path_index = r.path_index

\* C13 as stated: every update of a moving robot moves it along its route
C13_UpdateMovesAlong ==
    \A id \in DOMAIN robots, delta_time \in DeltaTimes :
        robots[id].status = MOVING =>
            MovesAlong(robots[id], robot_update(robots[id], delta_time).robot, delta_time)

\* C13: every update of a moving robot that does not empty its battery moves
\* it along its route; one that empties the battery still takes the robot to
\* its next site on arrival, with progress 0, and leaves it battery-dead
\* without route and next site.
C13_UpdateMovesAlongUnlessDepleted ==
    \A id \in DOMAIN robots, delta_time \in DeltaTimes :
        LET r   == robots[id]
            res == robot_update(r, delta_time)
        IN  r.status = MOVING =>
              IF res.ret
              THEN MovesAlong(r, res.robot, delta_time)
              ELSE /\ res.robot.status = BATTERY_DEAD
                   /\ res.robot.path = <<>>
                   /\ res.robot.next_vertex = None
                   /\ IF Arrives(r, delta_time)
                      THEN /\ res.robot.current_vertex = r.next_vertex
                           /\ res.robot.progress = 0
                      ELSE /\ res.robot.current_vertex = r.current_vertex
                           /\ res.robot.progress = r.progress + MoveSpeed * delta_time

\* C13 witness: a moving robot on the first lane of a longer route, half way
\* along it, which an update takes to the next site and leaves moving, and a
\* moving robot which an update takes to the end of its route
C13_Witness ==
    /\ \E id \in DOMAIN robots, delta_time \in DeltaTimes :
          /\ robots[id].status = MOVING
          /\ robots[id].progress > 0
          /\ robot_update(robots[id], delta_time).robot.status = MOVING
          /\ robot_update(robots[id], delta_time).robot.current_vertex
                = robots[id].next_vertex
    /\ \E id \in DOMAIN robots, delta_time \in DeltaTimes :
          /\ robots[id].status = MOVING
          /\ robot_update(robots[id], delta_time).robot.status = TASK_COMPLETE

\* C14: Robot.wait makes a moving robot waiting and leaves every other robot
\* as it is; Robot.resume makes a waiting robot moving and leaves every other
\* robot as it is; neither changes any field but the status.
C14_WaitResume ==
    \A id \in DOMAIN robots :
        LET r == robots[id]
        IN  /\ robot_wait(r) =
                  IF r.status = MOVING THEN [r EXCEPT !.status = WAITING] ELSE r
            /\ robot_resume(r) =
                  IF r.status = WAITING THEN [r EXCEPT !.status = MOVING] ELSE r
            /\ r.status # MOVING => robot_wait(r).status = r.status
            /\ r.status # WAITING => robot_resume(r).status = r.status

\* C14 witness: a moving robot, a waiting one and a task-complete one have
\* all occurred, here the first two at once
C14_Witness ==
    \E a, b \in DOMAIN robots :
        /\ robots[a].status = MOVING
        /\ robots[a].progress > 0
        /\ robots[b].status = WAITING

\* C15: every step that changes a charging robot raises its battery level,
\* leaves it charging only below the full level, and otherwise leaves it
\* task-complete with a full battery and the dead-battery flag cleared; and
\* under a main loop that keeps updating, a charging robot eventually is
\* task-complete with a full battery and the flag cleared.
C15_ChargingCompletes ==
    /\ [][\A id \in DOMAIN robots :
            robots[id].status = CHARGING =>
              /\ robots'[id].battery_level > robots[id].battery_level
              /\ IF robots'[id].status = CHARGING
                 THEN robots'[id].battery_level < FullBattery
                 ELSE /\ robots'[id].status = TASK_COMPLETE
                      /\ robots'[id].battery_level = FullBattery
                      /\ ~robots'[id].is_battery_dead]_vars
    /\ \A id \in RobotInputs :
          (id \in DOMAIN robots /\ robots[id].status = CHARGING)
            ~> /\ id \in DOMAIN robots
               /\ robots[id].status = TASK_COMPLETE
               /\ robots[id].battery_level = FullBattery
               /\ ~robots[id].is_battery_dead

\* C15 witness: a robot is charging at a charger after one update of the
\* charge, its battery still short of full
C15_Witness ==
    \E id \in DOMAIN robots :
        /\ robots[id].status = CHARGING
        /\ is_charger(robots[id].current_vertex)
        /\ robots[id].battery_level > LowBatteryLevel
        /\ robots[id].battery_level < FullBattery

\* C16: whenever an update switches a robot to charging, in its first loop
\* or in its scan of the robots that need charging, the robot is at that
\* moment on a charger and task-complete (or its battery is dead): a robot
\* that is idle, moving or waiting is never switched to charging.
C16_ChargingOnlyWhenTaskCompleteAtCharger ==
    \A id \in DOMAIN robots, delta_time \in DeltaTimes :
        LET before  == robots[id]
            during  == CoordinatorTick(delta_time).robots[id]
            after   == fleet_update(robots, traffic_manager, delta_time).robots[id]
            Allowed(r) == /\ is_charger(r.current_vertex)
                          /\ r.status = TASK_COMPLETE \/ r.is_battery_dead
        IN  /\ (before.status # CHARGING /\ during.status = CHARGING) => Allowed(before)
            /\ (during.status # CHARGING /\ after.status = CHARGING) => Allowed(during)

\* C17: every robot's battery level lies between 0 and 100 percent and its
\* progress between 0 and 1 lane; and a moving robot that an update of the
\* fleet takes to its next site has progress 0 after that update.
C17_BatteryAndProgressInRange ==
    \A id \in DOMAIN robots :
        /\ robots[id].battery_level \in 0..FullBattery
        /\ robots[id].progress \in 0..FullProgress
        /\ \A delta_time \in DeltaTimes :
              Arrives(robots[id], delta_time) =>
                /\ robot_update(robots[id], delta_time).robot.progress = 0
                /\ fleet_update(robots, traffic_manager, delta_time).robots[id].progress = 0

\* C17 witness: a robot half way along a lane with a battery neither full nor
\* empty, which the longer update takes to its next site, and a robot whose
\* battery an update has emptied
C17_Witness ==
    /\ \E id \in DOMAIN robots, delta_time \in DeltaTimes :
          /\ robots[id].progress > 0
          /\ robots[id].battery_level < FullBattery
          /\ Arrives(robots[id], delta_time)
    /\ \E id \in DOMAIN robots : robots[id].battery_level = 0

\* the request assign_task(robot_id, destination) is one the guards refuse
Refused(robot_id, destination) ==
    \/ robot_id \notin DOMAIN robots
    \/ destination \notin nav_graph.vertices
    \/ robots[robot_id].status \notin {IDLE, TASK_COMPLETE}
    \/ robots[robot_id].is_battery_dead

\* C18: FleetManager.assign_task returns false and leaves every robot and
\* the traffic manager as they were when the robot id is unknown, the
\* destination is no site of the graph, the robot is neither idle nor
\* task-complete, or its battery is dead.
C18_RefusedAssignChangesNothing ==
    \A robot_id \in RobotInputs, destination \in SiteInputs :
        Refused(robot_id, destination) =>
            LET res == assign_task(robots, traffic_manager, robot_id, destination)
            IN  /\ ~res.ret
                /\ res.robots = robots
                /\ res.tm = traffic_manager

\* C18 witness: a robot is moving or waiting on a route and the other one has
\* a dead battery
C18_Witness ==
    \E a, b \in DOMAIN robots :
        /\ robots[a].status \in {MOVING, WAITING}
        /\ robots[b].is_battery_dead
        /\ \E destination \in nav_graph.vertices : Refused(a, destination)

\* the candidates of assign_task(robot_id, destination), a request the
\* guards accept
CandidatePaths(robot_id, destination) ==
    alternative_paths_of[robots[robot_id].current_vertex, destination]

\* the state assign_task(robot_id, destination) is in after its scoring loop
AfterScoring(robot_id, destination) ==
    LET alternative_paths == CandidatePaths(robot_id, destination)
        ctx == [ shortest_length  |-> Len(shortest_of(alternative_paths)),
                 blocked_vertices |-> blocked_vertices_for(robots, robot_id),
                 blocked_edges    |-> blocked_edges_for(robots, robot_id),
                 moving_robots    |-> moving_robots_for(robots, traffic_manager, robot_id) ]
    IN  scoring_loop([ best_path |-> <<>>, best_score |-> 0,
                       tm |-> traffic_manager, path |-> <<>> ],
                     1, alternative_paths, robot_id, ctx)

\* assign_task(robot_id, destination) passes its guards, has candidates, and
\* its scoring loop keeps none: it goes on to the fallback
TakesFallback(robot_id, destination) ==
    /\ ~Refused(robot_id, destination)
    /\ CandidatePaths(robot_id, destination) # <<>>
    /\ AfterScoring(robot_id, destination).best_path = <<>>

\* C19: when assign_task keeps no candidate and cannot reserve the shortest
\* path either, it returns false and leaves every robot and the traffic
\* manager (reserved paths, occupancy, waiting set) as they were.
C19_FailedFallbackChangesNothing ==
    \A robot_id \in RobotInputs, destination \in SiteInputs :
        LET res == assign_task(robots, traffic_manager, robot_id, destination)
        IN  (TakesFallback(robot_id, destination) /\ ~res.ret) =>
                /\ res.robots = robots
                /\ res.tm = traffic_manager
                /\ ~reserve_path(traffic_manager, robot_id,
                                 shortest_of(CandidatePaths(robot_id, destination))).ret

\* C19 witness: a request for a robot that holds a reservation comes to the
\* fallback and fails there
C19_Witness ==
    \E robot_id \in DOMAIN robots, destination \in nav_graph.vertices :
        /\ TakesFallback(robot_id, destination)
        /\ ~assign_task(robots, traffic_manager, robot_id, destination).ret
        /\ robot_id \in DOMAIN traffic_manager.reserved_paths

\* C20: when assign_task keeps no candidate and reserves the shortest path
\* to another site, the robot is waiting when assign_task returns.
C20_FallbackLeavesWaiting ==
    \A robot_id \in RobotInputs, destination \in SiteInputs :
        LET res == assign_task(robots, traffic_manager, robot_id, destination)
        IN  ( /\ TakesFallback(robot_id, destination)
              /\ destination # robots[robot_id].current_vertex
              /\ res.ret )
            => res.robots[robot_id].status = WAITING

\* shortest_length, blocked_vertices, blocked_edges and moving_robots of
\* assign_task(robot_id, destination)
AssignContext(robot_id, destination) ==
    [ shortest_length  |-> Len(shortest_of(CandidatePaths(robot_id, destination))),
      blocked_vertices |-> blocked_vertices_for(robots, robot_id),
      blocked_edges    |-> blocked_edges_for(robots, robot_id),
      moving_robots    |-> moving_robots_for(robots, traffic_manager, robot_id) ]

\* path_score of assign_task(robot_id, destination) for a candidate
ScoreOf(ctx, path) ==
    path_score(path, ctx.shortest_length, ctx.blocked_vertices,
               ctx.blocked_edges, ctx.moving_robots)

\* a candidate the scoring loop may keep: a route of two sites or more with
\* no anticipated collision, which reserve_path accepts
Eligible(ctx, robot_id, path) ==
    /\ Len(path) >= 2
    /\ collision_hits(path, ctx.moving_robots) = {}
    /\ reserve_path(traffic_manager, robot_id, path).ret

\* assign_task(robot_id, destination) assigns a candidate its scoring loop
\* kept, not the fallback
AssignsScored(robot_id, destination) ==
    /\ ~Refused(robot_id, destination)
    /\ CandidatePaths(robot_id, destination) # <<>>
    /\ AfterScoring(robot_id, destination).best_path # <<>>
    /\ robot_assign_task(robots[robot_id],
                         AfterScoring(robot_id, destination).best_path).ret

\* C21: the route assign_task assigns outside the fallback is a candidate
\* with no anticipated collision that reserve_path accepts, and no other
\* such candidate has a lower score.
C21_AssignsLowestScoring ==
    \A robot_id \in RobotInputs, destination \in SiteInputs :
        AssignsScored(robot_id, destination) =>
            LET ctx == AssignContext(robot_id, destination)
                paths == CandidatePaths(robot_id, destination)
                assigned == assign_task(robots, traffic_manager,
                                        robot_id, destination).robots[robot_id].path
            IN  /\ \E k \in 1..Len(paths) : paths[k] = assigned
                /\ Eligible(ctx, robot_id, assigned)
                /\ \A k \in 1..Len(paths) :
                       Eligible(ctx, robot_id, paths[k])
                           => ScoreOf(ctx, assigned) <= ScoreOf(ctx, paths[k])

\* C22: spawn_robot(site) returns no robot and changes nothing when the site
\* is unknown or some robot that is not moving has it as current site;
\* otherwise it returns a new idle robot at that site, adds it under an id no
\* robot created so far has, and leaves every existing robot as it was.
C22_SpawnRobot ==
    /\ DOMAIN robots = 0..(next_robot_id - 1)
    /\ \A vertex_id \in SiteInputs :
          LET res == spawn_robot(robots, next_robot_id, vertex_id)
          IN  IF \/ vertex_id \notin nav_graph.vertices
                 \/ \E id \in DOMAIN robots :
                       /\ robots[id].status # MOVING
                       /\ robots[id].current_vertex = vertex_id
              THEN /\ res.ret = <<>>
                   /\ res.robots = robots
                   /\ res.next_robot_id = next_robot_id
              ELSE /\ Len(res.ret) = 1
                   /\ res.ret[1].status = IDLE
                   /\ res.ret[1].current_vertex = vertex_id
                   /\ res.ret[1].id \notin 0..(next_robot_id - 1)
                   /\ res.ret[1].id < res.next_robot_id
                   /\ DOMAIN res.robots = DOMAIN robots \cup {res.ret[1].id}
                   /\ res.robots[res.ret[1].id] = res.ret[1]
                   /\ \A id \in DOMAIN robots : res.robots[id] = robots[id]

\* C22 witness: a robot was spawned on the site a moving robot has not left
\* yet, and a further spawn there would be refused
C22_Witness ==
    \E a, b \in DOMAIN robots :
        /\ a < b
        /\ robots[a].status = MOVING
        /\ robots[b].status = IDLE
        /\ robots[b].current_vertex = robots[a].current_vertex
        /\ spawn_robot(robots, next_robot_id, robots[a].current_vertex).ret = <<>>

\* the robot the tick Update(delta_time) sends to a charger or starts
\* charging in its last loop: idle or task-complete once advanced, it
\* ends the tick with another status
TakenByScan(adv, res, id) ==
    /\ adv[id].status \in {IDLE, TASK_COMPLETE}
    /\ res.robots[id].status # adv[id].status

\* C23: in one update every robot is advanced before the traffic manager
\* runs, and the low-battery scan runs after it.  The occupancy the traffic
\* manager leaves is that of the advanced positions, where a robot alone on
\* its site and not taken by the scan holds that site; a moving robot it makes
\* wait has another robot, at its advanced position, on or heading to the
\* site of its next step; a robot the scan sends off holds its reservation
\* and no occupancy entry, and is not in the waiting set.
C23_AdvanceThenTrafficThenScan ==
    \A delta_time \in DeltaTimes :
        LET adv == AdvancedRobots(delta_time)
            res == fleet_update(robots, traffic_manager, delta_time)
        IN  /\ \A v \in DOMAIN res.tm.vertex_occupancy :
                  adv[res.tm.vertex_occupancy[v]].current_vertex = v
            /\ \A e \in DOMAIN res.tm.edge_occupancy :
                  LET r == adv[res.tm.edge_occupancy[e]]
                  IN  /\ OnLane(r)
                      /\ e = get_edge_key(r.current_vertex, r.next_vertex)
            /\ \A id \in DOMAIN robots :
                  ( /\ ~TakenByScan(adv, res, id)
                    /\ \A o \in DOMAIN robots \ {id} :
                          adv[o].current_vertex # adv[id].current_vertex )
                      => /\ adv[id].current_vertex \in DOMAIN res.tm.vertex_occupancy
                         /\ res.tm.vertex_occupancy[adv[id].current_vertex] = id
            /\ \A id \in DOMAIN robots :
                  (adv[id].status = MOVING /\ res.robots[id].status = WAITING)
                      => \E o \in DOMAIN robots \ {id} :
                            \/ adv[o].current_vertex = adv[id].next_vertex
                            \/ OnLane(adv[o]) /\ adv[o].next_vertex = adv[id].next_vertex
            /\ \A id \in DOMAIN robots :
                  (TakenByScan(adv, res, id) /\ res.robots[id].status # CHARGING)
                      => /\ id \in DOMAIN res.tm.reserved_paths
                         /\ res.tm.reserved_paths[id] = res.robots[id].path
                         /\ id \notin res.tm.waiting_robots
                         /\ \A v \in DOMAIN res.tm.vertex_occupancy :
                               res.tm.vertex_occupancy[v] # id
                         /\ \A e \in DOMAIN res.tm.edge_occupancy :
                               res.tm.edge_occupancy[e] # id

\* C23 witness: an update that takes a robot to another site, makes a moving
\* robot wait and sends a robot to the charger
C23_Witness ==
    \E delta_time \in DeltaTimes :
        LET adv == AdvancedRobots(delta_time)
            res == fleet_update(robots, traffic_manager, delta_time)
        IN  /\ \E id \in DOMAIN robots :
                  adv[id].current_vertex # robots[id].current_vertex
            /\ \E id \in DOMAIN robots :
                  adv[id].status = MOVING /\ res.robots[id].status = WAITING
            /\ \E id \in DOMAIN robots :
                  TakenByScan(adv, res, id) /\ res.robots[id].status = MOVING

\* C24: a robot that the advance of an update takes to a charger site, where
\* it becomes task-complete, is charging when that update returns.
C24_ArrivalAtChargerStartsCharging ==
    \A delta_time \in DeltaTimes : \A id \in DOMAIN robots :
        ( /\ robots[id].status = MOVING
          /\ AdvancedRobots(delta_time)[id].status = TASK_COMPLETE
          /\ is_charger(AdvancedRobots(delta_time)[id].current_vertex) )
        => fleet_update(robots, traffic_manager, delta_time).robots[id].status = CHARGING

\* the robots and the traffic manager the last loop of Update(delta_time)
\* finds when it comes to robot id: after the advance, the traffic manager
\* and the loop's work on the robots before it in the list
BeforeScanOf(id, delta_time) ==
    charging_pass(CoordinatorTick(delta_time) @@ [raised |-> FALSE], id_order(id))

\* the routes of the graph that lead from a site to a charger
RoutesToCharger(vertex) ==
    {p \in Routes : p[1] = vertex /\ is_charger(p[Len(p)])}

\* C25: a robot that the low-battery loop of an update finds idle or
\* task-complete with a battery of 20 % or less, away from every charger,
\* while some route to a charger has a free first step, is moving on a route
\* that ends at a charger when the update returns.
C25_LowBatteryHeadsToCharger ==
    \A delta_time \in DeltaTimes : \A id \in DOMAIN robots :
        LET st == BeforeScanOf(id, delta_time)
            r == st.robots[id]
            res == fleet_update(robots, traffic_manager, delta_time)
        IN  ( /\ r.status \in {IDLE, TASK_COMPLETE}
              /\ r.battery_level <= LowBatteryLevel
              /\ ~is_charger(r.current_vertex)
              /\ \E p \in RoutesToCharger(r.current_vertex) :
                    is_path_available(st.tm, id, p) )
            => /\ res.robots[id].status = MOVING
               /\ res.robots[id].path # <<>>
               /\ is_charger(res.robots[id].path[Len(res.robots[id].path)])

\* the shortest of the candidate routes from a site to its nearest charger
ShortestToCharger(vertex) ==
    shortest_of(alternative_paths_of[vertex, nearest_station(vertex)])

\* the low-battery loop of Update(delta_time) finds robot id idle or
\* task-complete with a battery of 20 % or less, away from every charger,
\* and the first step of the shortest route to the nearest charger is free
LowAndShortestFree(id, delta_time) ==
    LET st == BeforeScanOf(id, delta_time)
        r == st.robots[id]
    IN  /\ r.status \in {IDLE, TASK_COMPLETE}
        /\ r.battery_level <= LowBatteryLevel
        /\ ~is_charger(r.current_vertex)
        /\ is_path_available(st.tm, id, ShortestToCharger(r.current_vertex))

\* C25 as it holds: when the first step of the shortest route to the nearest
\* charger is free, such a robot is moving or waiting on a route that ends at
\* a charger when the update returns.
C25_LowBatteryTakesRouteToCharger ==
    \A delta_time \in DeltaTimes : \A id \in DOMAIN robots :
        LowAndShortestFree(id, delta_time) =>
            LET r == fleet_update(robots, traffic_manager, delta_time).robots[id]
            IN  /\ r.status \in {MOVING, WAITING}
                /\ r.path # <<>>
                /\ is_charger(r.path[Len(r.path)])

\* C25 witness: an update after which such a robot waits on its route to the
\* charger, and one after which such a robot moves on it
C25_Witness ==
    \E delta_time \in DeltaTimes : \E a, b \in DOMAIN robots :
        /\ LowAndShortestFree(a, delta_time)
        /\ LowAndShortestFree(b, delta_time)
        /\ fleet_update(robots, traffic_manager, delta_time).robots[a].status = MOVING
        /\ fleet_update(robots, traffic_manager, delta_time).robots[b].status = WAITING

\* C26: when a robot with a low battery is away from the chargers and some
\* charger cannot be reached from its site, the update still returns
\* normally: no exception leaves it.
C26_UnreachableChargerTickCompletes ==
    \A delta_time \in DeltaTimes :
        (\E id \in DOMAIN robots :
            LET r == BeforeScanOf(id, delta_time).robots[id]
            IN  /\ needs_charging(r) /\ ~is_charging(r) /\ ~r.is_battery_dead
                /\ ~is_charger(r.current_vertex)
                /\ \E v \in charging_stations :
                      \A p \in Routes : ~(p[1] = r.current_vertex /\ p[Len(p)] = v))
        => ~fleet_update(robots, traffic_manager, delta_time).raised

\* the lane keys of a graph
LaneKeys(G) == {get_edge_key(e[1], e[2]) : e \in G.lanes}

\* the simple paths from a to b over the lanes of G that are not excluded:
\* the brute-force reference
SimplePaths(G, a, b, excluded) ==
    {p \in UNION {[1..n -> G.vertices] : n \in 1..Cardinality(G.vertices)} :
        /\ p[1] = a
        /\ p[Len(p)] = b
        /\ \A i, j \in 1..Len(p) : i # j => p[i] # p[j]
        /\ \A i \in 1..(Len(p) - 1) :
              get_edge_key(p[i], p[i + 1]) \in LaneKeys(G) \ excluded}

\* the total weight of the lanes of a route, each lane weighing the distance
\* between its sites
RECURSIVE RouteWeight(_, _)
RouteWeight(G, p) ==
    IF Len(p) < 2 THEN 0
    ELSE euclidean_distance(G, p[1], p[2]) + RouteWeight(G, Tail(p))

\* C27: for sites A and B joined by some lane path, get_shortest_path(A, B)
\* returns a route from A to B over lanes of the graph whose total weight is
\* the least among all simple paths from A to B.
C27_ShortestPathIsMinimal ==
    ( /\ query.op = "get_shortest_path"
      /\ query.blocked_edges = {}
      /\ query.start \in nav_graph.vertices
      /\ query.end \in nav_graph.vertices
      /\ SimplePaths(nav_graph, query.start, query.end, {}) # {} )
    => /\ ~query.raised
       /\ query.ret \in SimplePaths(nav_graph, query.start, query.end, {})
       /\ \A p \in SimplePaths(nav_graph, query.start, query.end, {}) :
             RouteWeight(nav_graph, query.ret) <= RouteWeight(nav_graph, p)

\* C27 witness: the route returned has two lanes or more, and another simple
\* path with as many lanes weighs more
C27_Witness ==
    /\ query.op = "get_shortest_path"
    /\ query.blocked_edges = {}
    /\ ~query.raised
    /\ Len(query.ret) >= 3
    /\ \E p \in SimplePaths(nav_graph, query.start, query.end, {}) :
          /\ Len(p) = Len(query.ret)
          /\ RouteWeight(nav_graph, p) > RouteWeight(nav_graph, query.ret)

\* C28: get_shortest_path(start, end, blocked_edges) for sites of the graph
\* does not raise; it returns None whenever no path from start to end is
\* left once the blocked lanes are removed, and a route it returns uses no
\* blocked lane.
C28_NoPathIsNotFound ==
    ( /\ query.op = "get_shortest_path"
      /\ query.start \in nav_graph.vertices
      /\ query.end \in nav_graph.vertices )
    => /\ ~query.raised
       /\ SimplePaths(nav_graph, query.start, query.end, query.blocked_edges) = {}
             => query.ret = <<>>
       /\ path_edges(query.ret) \cap query.blocked_edges = {}

\* C28 witness: the sites are joined in the graph, the blocked lanes cut
\* every path between them, and None is returned
C28_Witness ==
    /\ query.op = "get_shortest_path"
    /\ query.blocked_edges # {}
    /\ SimplePaths(nav_graph, query.start, query.end, {}) # {}
    /\ SimplePaths(nav_graph, query.start, query.end, query.blocked_edges) = {}
    /\ ~query.raised
    /\ query.ret = <<>>

\* the lanes of a route in the order the route takes them
LaneSequence(p) == [i \in 1..(Len(p) - 1) |-> get_edge_key(p[i], p[i + 1])]

C30_UnknownSiteIsNotFound ==
    ( /\ query.op \in {"get_shortest_path", "get_alternative_paths", "get_neighbors"}
      /\ \/ query.start \notin nav_graph.vertices
         \/ query.op # "get_neighbors" /\ query.end \notin nav_graph.vertices )
    => /\ ~query.raised
       /\ query.ret = (IF query.op = "get_neighbors" THEN {} ELSE <<>>)

\* robot id has just been given a route to destination by assign_task: it is
\* moving from the first site of the route, with index 0 and progress 0
JustAssigned(id, destination) ==
    /\ id \in DOMAIN robots
    /\ robots[id].status = MOVING
    /\ robots[id].path # <<>>
    /\ robots[id].path_index = 0
    /\ robots[id].progress = 0
    /\ robots[id].path[1] = robots[id].current_vertex
    /\ robots[id].path[Len(robots[id].path)] = destination

\* the battery a robot drains over the lanes of its route that are left, at
\* battery_drain_rate for the time move_speed takes over them
BatteryForRoute(r) ==
    BatteryDrainRate * (FullProgress * (Len(r.path) - 1 - r.path_index) - r.progress)

\* robot id is task-complete at destination
CompleteAt(id, destination) ==
    /\ id \in DOMAIN robots
    /\ robots[id].current_vertex = destination
    /\ robots[id].status = TASK_COMPLETE

Orders(ids) ==
    {order \in [1..Cardinality(ids) -> ids] :
        \A i, j \in 1..Cardinality(ids) : i # j => order[i] # order[j]}

\* C32: the result of the coordinator tick of an update (the status of every
\* robot and the waiting set) is the same for every order in which the
\* robots are handed to it.
C32_TickIsOrderIndependent ==
    (ticks < MaxTicks /\ ~crashed) =>
        \A delta_time \in DeltaTimes, order \in Orders(DOMAIN robots) :
            LET out == traffic_update(traffic_manager, AdvancedRobots(delta_time), order)
                ref == CoordinatorTick(delta_time)
            IN  /\ \A id \in DOMAIN robots :
                      out.robots[id].status = ref.robots[id].status
                /\ get_blocked_robots(out.tm) = get_blocked_robots(ref.tm)

\* C33: in every reachable state a robot whose status is idle, task-complete,
\* charging or battery-dead has no next site.
C33_NextSiteOnlyOnLane ==
    \A id \in DOMAIN robots :
        robots[id].status \in {IDLE, TASK_COMPLETE, CHARGING, BATTERY_DEAD}
        => robots[id].next_vertex = None

\* the lane a robot on a lane is on, as the coordinator names it
LaneOf(r) == get_edge_key(r.current_vertex, r.next_vertex)

\* C34 as stated: at the end of every coordinator tick the occupied sites are
\* exactly the robots' current sites, and a lane is recorded as occupied by a
\* robot exactly when that robot is moving with a next site and the lane joins
\* its current and its next site.
C34_SnapshotMatchesRobots ==
    (ticks < MaxTicks /\ ~crashed) =>
        \A delta_time \in DeltaTimes :
            LET out == CoordinatorTick(delta_time)
                occ == out.tm.edge_occupancy
            IN  /\ DOMAIN out.tm.vertex_occupancy
                      = {out.robots[id].current_vertex : id \in DOMAIN robots}
                /\ \A id \in DOMAIN robots, e \in (DOMAIN occ) \cup LaneKeys(nav_graph) :
                      (e \in DOMAIN occ /\ occ[e] = id)
                      <=> (OnLane(out.robots[id]) /\ e = LaneOf(out.robots[id]))

\* C34 amended: at the end of every coordinator tick the occupied sites are
\* exactly the robots' current sites, each recorded for a robot that stands
\* on it, and the occupied lanes are exactly the lanes of the robots that
\* were moving with a next site when the tick began, each recorded for such a
\* robot.
C34_SnapshotMatchesRobotsAtStart ==
    (ticks < MaxTicks /\ ~crashed) =>
        \A delta_time \in DeltaTimes :
            LET rs  == AdvancedRobots(delta_time)
                out == CoordinatorTick(delta_time)
                occ == out.tm.edge_occupancy
            IN  /\ DOMAIN out.tm.vertex_occupancy
                      = {out.robots[id].current_vertex : id \in DOMAIN robots}
                /\ \A v \in DOMAIN out.tm.vertex_occupancy :
                      /\ out.tm.vertex_occupancy[v] \in DOMAIN robots
                      /\ out.robots[out.tm.vertex_occupancy[v]].current_vertex = v
                /\ DOMAIN occ = {LaneOf(rs[id]) : id \in {x \in DOMAIN robots : OnLane(rs[x])}}
                /\ \A e \in DOMAIN occ :
                      /\ occ[e] \in DOMAIN robots
                      /\ OnLane(rs[occ[e]])
                      /\ LaneOf(rs[occ[e]]) = e

\* C34 witness: a coordinator tick is about to make a moving robot wait, its
\* lane staying on record, with another robot standing on a site on record
C34_Witness ==
    /\ ticks < MaxTicks /\ ~crashed
    /\ \E delta_time \in DeltaTimes, a, b \in DOMAIN robots :
          LET rs  == AdvancedRobots(delta_time)
              out == CoordinatorTick(delta_time)
          IN  /\ a # b
              /\ OnLane(rs[a])
              /\ out.robots[a].status = WAITING
              /\ LaneOf(rs[a]) \in DOMAIN out.tm.edge_occupancy
              /\ out.tm.edge_occupancy[LaneOf(rs[a])] = a
              /\ out.tm.vertex_occupancy[rs[b].current_vertex] = b

\* after assign_task (its result being res) robot_id is moving or waiting on
\* a route from its current site to destination, which is its reserved route
OnRouteTo(res, robot_id, destination) ==
    LET r == res.robots[robot_id]
    IN  /\ r.status \in {MOVING, WAITING}
        /\ r.path # <<>>
        /\ r.path[1] = r.current_vertex
        /\ r.path[Len(r.path)] = destination
        /\ robot_id \in DOMAIN res.tm.reserved_paths
        /\ res.tm.reserved_paths[robot_id] = r.path

\* C35 as stated: whenever assign_task returns true, the robot is moving or
\* waiting, its route starts at its current site and ends at the destination,
\* and the reserved route of the robot is that route; the call whose
\* destination is the robot's current site included.
C35_SuccessMeansOnRoute ==
    \A robot_id \in RobotInputs, destination \in SiteInputs :
        LET res == assign_task(robots, traffic_manager, robot_id, destination)
        IN  res.ret => OnRouteTo(res, robot_id, destination)

\* C35 amended: whenever assign_task returns true for a destination other
\* than the robot's current site, the robot is moving or waiting, its route
\* starts at its current site and ends at the destination, and the reserved
\* route of the robot is that route; for the robot's current site the call
\* returns true, leaves every robot as it was and reserves the route of that
\* one site.
C35_SuccessMeansOnRouteUnlessThere ==
    \A robot_id \in RobotInputs, destination \in SiteInputs :
        LET res == assign_task(robots, traffic_manager, robot_id, destination)
        IN  /\ (res.ret /\ destination # robots[robot_id].current_vertex)
               => OnRouteTo(res, robot_id, destination)
            /\ ( /\ ~Refused(robot_id, destination)
                 /\ destination = robots[robot_id].current_vertex )
               => /\ res.ret
                  /\ res.robots = robots
                  /\ robot_id \in DOMAIN res.tm.reserved_paths
                  /\ res.tm.reserved_paths[robot_id] = <<destination>>

\* C35 witness: for a task-complete robot with the other robot moving,
\* assign_task succeeds with a scored route to one site, through the fallback
\* to another one, and for the robot's own site
C35_Witness ==
    \E robot_id \in DOMAIN robots :
        /\ robots[robot_id].status = TASK_COMPLETE
        /\ \E other \in DOMAIN robots : OnLane(robots[other])
        /\ \E destination \in nav_graph.vertices :
              /\ ~TakesFallback(robot_id, destination)
              /\ destination # robots[robot_id].current_vertex
              /\ assign_task(robots, traffic_manager, robot_id, destination).ret
        /\ \E destination \in nav_graph.vertices :
              /\ TakesFallback(robot_id, destination)
              /\ destination # robots[robot_id].current_vertex
              /\ assign_task(robots, traffic_manager, robot_id, destination).ret
        /\ assign_task(robots, traffic_manager, robot_id,
                       robots[robot_id].current_vertex).ret

\* C36: when every robot is spawned before the first update, at a site of
\* its own, no task is assigned before the first update, and every update
\* advances a moving robot by less than one lane, no two robots ever have
\* the same current site.
C36_DistinctSitesUnderCare == DistinctSites(robots)

\* C36 witness: after several updates one robot has arrived at the site
\* another robot is heading for, and that robot has been made to wait half
\* way along its lane
C36_Witness ==
    \E a, b \in DOMAIN robots :
        /\ ticks >= 2
        /\ robots[a].status = TASK_COMPLETE
        /\ robots[b].status = WAITING
        /\ robots[b].progress > 0
        /\ robots[b].next_vertex = robots[a].current_vertex
        /\ b \in get_blocked_robots(traffic_manager)

\* C37: every robot that is moving or waiting has a route, an index with
\* 0 <= index < length of the route - 1, the site route[index] as current
\* site and route[index + 1] as next site, and its reserved route is its
\* route.
C37_OnRouteConsistent ==
    \A id \in DOMAIN robots :
        LET r == robots[id]
        IN  r.status \in {MOVING, WAITING} =>
              /\ r.path # <<>>
              /\ 0 <= r.path_index
              /\ r.path_index < Len(r.path) - 1
              /\ r.current_vertex = r.path[r.path_index + 1]
              /\ r.next_vertex = r.path[r.path_index + 2]
              /\ id \in DOMAIN traffic_manager.reserved_paths
              /\ traffic_manager.reserved_paths[id] = r.path

\* C37 witness: a robot is moving on the second lane of its route while the
\* other one is waiting
C37_Witness ==
    \E a, b \in DOMAIN robots :
        /\ robots[a].status = MOVING
        /\ robots[a].path_index = 1
        /\ robots[b].status = WAITING

\* C38: once a robot is battery-dead, no spawn_robot, assign_task or update
\* call changes its status, its battery level, its current site or its
\* dead-battery flag.
C38_BatteryDeadIsAbsorbing ==
    [][\A id \in DOMAIN robots :
          robots[id].status = BATTERY_DEAD =>
            /\ id \in DOMAIN robots'
            /\ robots'[id].status = BATTERY_DEAD
            /\ robots'[id].battery_level = robots[id].battery_level
            /\ robots'[id].current_vertex = robots[id].current_vertex
            /\ robots'[id].is_battery_dead = robots[id].is_battery_dead]_vars

\* C38 witness: a battery-dead robot stands on a charger, with its battery
\* at 0 and the flag set, while another update can still be made and the
\* other robot is on its way
C38_Witness ==
    \E id, other \in DOMAIN robots :
        /\ robots[id].status = BATTERY_DEAD
        /\ robots[id].battery_level = 0
        /\ robots[id].is_battery_dead
        /\ is_charger(robots[id].current_vertex)
        /\ ticks < MaxTicks
        /\ robots[other].status \in {MOVING, WAITING}

\* C39: no robot is moving for ever: every step that changes a robot which
\* is moving before and after it lowers the robot's battery level, and under
\* a main loop that keeps updating every moving robot eventually is
\* task-complete, waiting, charging or battery-dead.
C39_MovingEnds ==
    /\ [][\A id \in DOMAIN robots :
            ( /\ robots[id].status = MOVING
              /\ robots'[id].status = MOVING
              /\ robots'[id] # robots[id] )
            => robots'[id].battery_level < robots[id].battery_level]_vars
    /\ \A id \in RobotInputs :
          (id \in DOMAIN robots /\ robots[id].status = MOVING)
            ~> /\ id \in DOMAIN robots
               /\ robots[id].status \in {TASK_COMPLETE, WAITING, CHARGING, BATTERY_DEAD}

\* C39 witness: a robot is still moving after an update has taken it over
\* the first lane of its route and drained its battery, the other robot
\* waiting
C39_Witness ==
    \E a, b \in DOMAIN robots :
        /\ robots[a].status = MOVING
        /\ robots[a].path_index >= 1
        /\ robots[a].battery_level < FullBattery
        /\ robots[b].status = WAITING

\* C40: Robot.update on a robot that is idle, waiting, task-complete or
\* battery-dead returns the robot with every field as it was, and True,
\* whatever the elapsed time; and no step of the fleet changes the progress
\* or the battery level of a robot that is waiting before it.
C40_UpdateLeavesStill ==
    /\ [](\A id \in DOMAIN robots : \A dt \in DeltaTimes :
            robots[id].status \in {IDLE, WAITING, TASK_COMPLETE, BATTERY_DEAD}
            => robot_update(robots[id], dt) = [robot |-> robots[id], ret |-> TRUE])
    /\ [][\A id \in DOMAIN robots :
            robots[id].status = WAITING
            => /\ robots'[id].progress = robots[id].progress
               /\ robots'[id].battery_level = robots[id].battery_level]_vars

\* C40 witness: a robot waits half-way along a lane with a battery that has
\* been drained, an update can still be made, and the other robot is idle,
\* task-complete or battery-dead
C40_Witness ==
    \E a, b \in DOMAIN robots :
        /\ robots[a].status = WAITING
        /\ robots[a].progress > 0
        /\ robots[a].battery_level < FullBattery
        /\ robots[b].status \in {IDLE, TASK_COMPLETE, BATTERY_DEAD}
        /\ ticks < MaxTicks

====
